---- MODULE Spec2Model ----
(***************************************************************************)
(* The authorization subsystem of the homelab MCP server: configuration    *)
(* loading, the OAuth 2.0 authorization-code (PKCE) and client-credentials *)
(* grants, bearer-token validation, the expiry reaper and the capability   *)
(* gate of the call_tool dispatcher.                                       *)
(*                                                                         *)
(* Time is Date.now() in milliseconds.  randomBytes(32).toString('hex') is *)
(* modelled as a generator of fresh strings (256 bits of entropy: a value  *)
(* is never drawn twice).  A missing request parameter (undefined) and an  *)
(* empty one are both the empty string: the code only tests them for       *)
(* truthiness.                                                             *)
(***************************************************************************)
EXTENDS Integers, FiniteSets, Sequences, TLC

VARIABLES
  phase,               \* "boot", "http", "stdio" or "exited": where main() stands
                       \* ("unit": no server, a function is applied on its own)
  env,                 \* process.env
  config,              \* the Config object main() loaded
  availableTools,      \* main(): the tools tools/list answers with
  now,                 \* Date.now()
  ticks,               \* how many times the clock has advanced
  activeTokens,        \* oauth.ts: token -> [expiresAt]
  authorizationCodes,  \* oauth.ts: code -> [codeChallenge, codeChallengeMethod, clientId, redirectUri, expiresAt]
  codesCreated,        \* codes drawn from randomBytes so far
  tokensIssued,        \* tokens drawn from randomBytes so far
  req,                 \* the HTTP requests suspended at an await, by connection slot
  callCount,           \* per tool: how often its handler was invoked
  dispatches,          \* how many call_tool requests were dispatched
  lastCall,            \* the outcome of the latest call_tool dispatch
  codeHist,            \* per created code: what it was created with, and its redemptions
                       \* (burned: an attempt found it in the store and failed)
  tokenHist,           \* per issued token: when and by which grant it was issued, and whether it was ever refused
  lastHttp,            \* the latest answer of the token or the MCP endpoint, as the client sees it
  probe,               \* a function of oauth.ts applied on its own: its arguments and its result
  activeTransports     \* index.ts: session id -> the transport of a session that later requests name
                       \* (openedWith: the bearer token of the request that opened it)

vars == <<phase, env, config, availableTools, now, ticks, activeTokens, authorizationCodes,
          codesCreated, tokensIssued, req, callCount, dispatches, lastCall,
          codeHist, tokenHist, lastHttp, probe, activeTransports>>

----------------------------------------------------------------------------
(* Bounds of the model *)

\* authorization codes created
MaxCodes == 1
\* tokens drawn before the client-credentials grant is no longer tried
MaxTokens == 1
\* advances of the clock
MaxTicks == 1
\* HTTP requests suspended at the same time
MaxReq == 2
\* call_tool requests dispatched
MaxDispatch == 2
MaxSessions == 1
\* sweep intervals in which clients make requests, where time is followed to the end
MaxBusyIntervals == 2

(* Program constants *)

TOKEN_EXPIRATION == 3600
AUTH_CODE_EXPIRATION == 600

----------------------------------------------------------------------------
(* JavaScript values *)

Num(n) == [t |-> "num", v |-> n]
NaN == [t |-> "nan", v |-> 0]
Null == [t |-> "null", v |-> 0]

\* a > b and a <= b on numbers: every comparison with NaN is false
JsGt(a, b) == a.t = "num" /\ b.t = "num" /\ a.v > b.v
JsLe(a, b) == a.t = "num" /\ b.t = "num" /\ a.v <= b.v
JsLt(a, b) == a.t = "num" /\ b.t = "num" /\ a.v < b.v

\* !!x for a number or null
Truthy(x) == x.t = "num" /\ x.v # 0

Digits == <<"0", "1", "2", "3", "4", "5", "6", "7", "8", "9">>
IsDigit(ch) == \E i \in 1..Len(Digits) : Digits[i] = ch
DigitVal(ch) == (CHOOSE i \in 1..Len(Digits) : Digits[i] = ch) - 1

RECURSIVE LeadingDigits(_, _)
\* the value of the longest prefix of decimal digits of s, continuing from acc
LeadingDigits(s, acc) ==
  IF s = <<>> \/ ~IsDigit(Head(s)) THEN acc
  ELSE LeadingDigits(Tail(s), 10 * acc + DigitVal(Head(s)))

\* parseInt(s, 10) of a string given as its characters
parseInt(s) ==
  LET neg == s # <<>> /\ Head(s) = "-"
      body == IF s # <<>> /\ Head(s) \in {"-", "+"} THEN Tail(s) ELSE s
  IN IF body = <<>> \/ ~IsDigit(Head(body)) THEN NaN
     ELSE Num((IF neg THEN -1 ELSE 1) * LeadingDigits(body, 0))

----------------------------------------------------------------------------
(* Configuration *)

\* the values CAPABILITY_LEVEL is tried with (<<>>: not set)
EnvLevels == {<<>>, <<"0">>, <<"1">>, <<"2">>, <<"3">>, <<"4">>, <<"5">>,
              <<"a", "b", "c">>}
EnvPorts == {<<>>, <<"3", "0", "0", "0">>}
EnvTransports == {"", "http"}
EnvApiKeys == {"", "key"}
EnvClientIds == {"", "cid"}
EnvClientSecrets == {"", "secret"}

Envs == [CAPABILITY_LEVEL : EnvLevels, PORT : EnvPorts, MCP_TRANSPORT : EnvTransports,
         API_KEY : EnvApiKeys, OAUTH_CLIENT_ID : EnvClientIds,
         OAUTH_CLIENT_SECRET : EnvClientSecrets]

loadConfig(e) ==
  [capabilityLevel |-> parseInt(IF e.CAPABILITY_LEVEL # <<>> THEN e.CAPABILITY_LEVEL ELSE <<"1">>),
   apiKey |-> e.API_KEY,
   port |-> IF e.PORT # <<>> THEN parseInt(e.PORT) ELSE Null,
   oauthClientId |-> e.OAUTH_CLIENT_ID,
   oauthClientSecret |-> e.OAUTH_CLIENT_SECRET]

\* the config before main() has loaded one
NoConfig == [capabilityLevel |-> Null, apiKey |-> "", port |-> Null,
             oauthClientId |-> "", oauthClientSecret |-> ""]

hasApiKey(c) == c.apiKey # ""
\* a faulty test that is content with either half of the client's credentials
hasOAuthEither(c) == c.oauthClientId # "" \/ c.oauthClientSecret # ""

hasOAuth(c) == c.oauthClientId # "" /\ c.oauthClientSecret # ""

\* TRUE when validateConfig returns, FALSE when it throws
validateConfig(c) ==
  /\ ~(JsLt(c.capabilityLevel, Num(1)) \/ JsGt(c.capabilityLevel, Num(4)))
  /\ (Truthy(c.port) => (hasApiKey(c) \/ hasOAuth(c)))

useHttp(e, c) == e.MCP_TRANSPORT = "http" \/ Truthy(c.port)

----------------------------------------------------------------------------
(* The tool registry: one tool of ALL_TOOLS for each level *)

ALL_TOOLS == {[name |-> "docker_list_containers", level |-> 1],
              [name |-> "docker_restart_container", level |-> 2],
              [name |-> "docker_read_compose", level |-> 3],
              [name |-> "docker_exec", level |-> 4]}

ToolNames == {t.name : t \in ALL_TOOLS}

\* the names call_tool is tried with: every registered one and one that is not
RequestedNames == ToolNames \cup {"no_such_tool"}

\* a faulty filter that leaves out the tools of the configured level itself
getToolsBelowLevel(level) == {t \in ALL_TOOLS : JsLt(Num(t.level), level)}

getToolsForLevel(level) == {t \in ALL_TOOLS : JsLe(Num(t.level), level)}

\* the set holding the tool of that name, empty when there is none (undefined)
getTool(name) == {t \in ALL_TOOLS : t.name = name}

----------------------------------------------------------------------------
(* oauth.ts: the two stores and the functions over them *)

EmptyMap == [k \in {} |-> TRUE]
MapPut(m, k, v) == [x \in DOMAIN m \cup {k} |-> IF x = k THEN v ELSE m[x]]
\* a faulty Map.delete that removes nothing
MapKeep(m, k) == m
MapDel(m, k) == [x \in DOMAIN m \ {k} |-> m[x]]

\* randomBytes(32).toString('hex'): the n-th value drawn, never drawn before
randomHex(prefix, n) == prefix \o ToString(n)

\* base64url(SHA-256(v)) of the verifiers the clients use
S256(v) ==
  CASE v = "abc123" -> "bKE9UspwyIPg8LsQHkJaiehiTeUdstI5JZOvaoQRgJA"
    [] v = "xyz789" -> "WkZAwX6OSevMciNMzpZE3Kz7wsU-Am9ZKByjOSi-1S0"
    [] OTHER -> "47DEQpj8HBSa-_TImW-5JCeuQeRkm5NMpJWZG3hSuFU"

\* Strings are written with one character per UTF-16 code unit.  Two characters
\* stand for code units outside ASCII: "^" for the unpaired surrogate U+D800 (a
\* JSON body can carry it as \ud800) and "~" for U+FFFD, the replacement
\* character.
LoneSurrogate == "^"
ReplacementChar == "~"

\* the UTF-8 bytes of one code unit: an unpaired surrogate is encoded as U+FFFD
utf8Unit(ch) ==
  IF ch \in {LoneSurrogate, ReplacementChar} THEN <<"EF", "BF", "BD">> ELSE <<ch>>

\* Buffer.from(string): the UTF-8 encoding of the string
RECURSIVE BufferFrom(_)
BufferFrom(str) ==
  IF str = "" THEN <<>>
  ELSE utf8Unit(SubSeq(str, 1, 1)) \o BufferFrom(SubSeq(str, 2, Len(str)))

\* equal lengths and equal bytes
timingSafeEqual(a, b) ==
  LET bufA == BufferFrom(a)
      bufB == BufferFrom(b)
  IN IF Len(bufA) # Len(bufB) THEN FALSE ELSE bufA = bufB

\* a faulty validateClientCredentials that checks the client id only
validateClientCredentialsIdOnly(clientId, clientSecret, c) ==
  IF c.oauthClientId = "" \/ c.oauthClientSecret = "" THEN FALSE
  ELSE timingSafeEqual(clientId, c.oauthClientId)

validateClientCredentials(clientId, clientSecret, c) ==
  IF c.oauthClientId = "" \/ c.oauthClientSecret = "" THEN FALSE
  ELSE timingSafeEqual(clientId, c.oauthClientId)
       /\ timingSafeEqual(clientSecret, c.oauthClientSecret)

validateClientId(clientId, c) ==
  IF c.oauthClientId = "" THEN FALSE ELSE timingSafeEqual(clientId, c.oauthClientId)

\* a faulty issueToken that also stores a token nobody asked for
issueTokenPair(tokens, n, t) ==
  LET token == randomHex("tok", n)
      expiresAt == t + TOKEN_EXPIRATION * 1000
  IN [tokens |-> MapPut(MapPut(tokens, token, [expiresAt |-> expiresAt]),
                        randomHex("spare", n), [expiresAt |-> expiresAt]),
      response |-> [access_token |-> token, token_type |-> "Bearer",
                    expires_in |-> TOKEN_EXPIRATION]]

\* the store after issueToken at time t, and the response it returns
issueToken(tokens, n, t) ==
  LET token == randomHex("tok", n)
      expiresAt == t + TOKEN_EXPIRATION * 1000
  IN [tokens |-> MapPut(tokens, token, [expiresAt |-> expiresAt]),
      response |-> [access_token |-> token, token_type |-> "Bearer",
                    expires_in |-> TOKEN_EXPIRATION]]

\* a faulty validateAccessToken that leaves expiry to the reaper
validateAccessTokenStored(tokens, token, c, t) ==
  IF c.apiKey # "" /\ token = c.apiKey THEN [ok |-> TRUE, tokens |-> tokens]
  ELSE [ok |-> token \in DOMAIN tokens, tokens |-> tokens]

\* a faulty validateAccessToken that renews the lifetime of a token on each use
validateAccessTokenSliding(tokens, token, c, t) ==
  IF c.apiKey # "" /\ token = c.apiKey THEN [ok |-> TRUE, tokens |-> tokens]
  ELSE IF token \notin DOMAIN tokens THEN [ok |-> FALSE, tokens |-> tokens]
  ELSE IF tokens[token].expiresAt < t THEN [ok |-> FALSE, tokens |-> MapDel(tokens, token)]
  ELSE [ok |-> TRUE,
        tokens |-> MapPut(tokens, token, [expiresAt |-> t + TOKEN_EXPIRATION * 1000])]

\* a faulty validateAccessToken that, finding a token expired, drops every expired one
validateAccessTokenPurge(tokens, token, c, t) ==
  IF c.apiKey # "" /\ token = c.apiKey THEN [ok |-> TRUE, tokens |-> tokens]
  ELSE IF token \notin DOMAIN tokens THEN [ok |-> FALSE, tokens |-> tokens]
  ELSE IF tokens[token].expiresAt < t
  THEN [ok |-> FALSE,
        tokens |-> [k \in {x \in DOMAIN tokens : ~(tokens[x].expiresAt < t)} |-> tokens[k]]]
  ELSE [ok |-> TRUE, tokens |-> tokens]

\* a faulty validateAccessToken that compares with the API key even when none is set
validateAccessTokenAnyKey(tokens, token, c, t) ==
  IF token = c.apiKey THEN [ok |-> TRUE, tokens |-> tokens]
  ELSE IF token \notin DOMAIN tokens THEN [ok |-> FALSE, tokens |-> tokens]
  ELSE IF tokens[token].expiresAt < t THEN [ok |-> FALSE, tokens |-> MapDel(tokens, token)]
  ELSE [ok |-> TRUE, tokens |-> tokens]

\* the answer of validateAccessToken at time t, and the store it leaves
validateAccessToken(tokens, token, c, t) ==
  IF c.apiKey # "" /\ token = c.apiKey THEN [ok |-> TRUE, tokens |-> tokens]
  ELSE IF token \notin DOMAIN tokens THEN [ok |-> FALSE, tokens |-> tokens]
  ELSE IF tokens[token].expiresAt < t THEN [ok |-> FALSE, tokens |-> MapDel(tokens, token)]
  ELSE [ok |-> TRUE, tokens |-> tokens]

\* the code createAuthorizationCode returns at time t, and the store it leaves
createAuthorizationCode(codes, n, clientId, redirectUri, codeChallenge, codeChallengeMethod, t) ==
  LET code == randomHex("code", n)
      expiresAt == t + AUTH_CODE_EXPIRATION * 1000
  IN [code |-> code,
      codes |-> MapPut(codes, code,
                       [codeChallenge |-> codeChallenge,
                        codeChallengeMethod |-> codeChallengeMethod,
                        clientId |-> clientId,
                        redirectUri |-> redirectUri,
                        expiresAt |-> expiresAt])]

\* a faulty validatePKCE that compares as plain under every method it does not know
validatePKCELenient(codeVerifier, codeChallenge, codeChallengeMethod) ==
  IF codeChallengeMethod = "S256" THEN S256(codeVerifier) = codeChallenge
  ELSE codeVerifier = codeChallenge

validatePKCE(codeVerifier, codeChallenge, codeChallengeMethod) ==
  IF codeChallengeMethod = "S256" THEN S256(codeVerifier) = codeChallenge
  ELSE IF codeChallengeMethod = "plain" THEN codeVerifier = codeChallenge
  ELSE FALSE

\* a faulty validateAuthorizationCode that never deletes the code
validateAuthorizationCodeKeep(codes, code, clientId, redirectUri, codeVerifier, t) ==
  IF code \notin DOMAIN codes
  THEN [valid |-> FALSE, error |-> "Invalid authorization code", codes |-> codes]
  ELSE LET codeData == codes[code]
           left == MapDel(codes, code)
       IN IF codeData.expiresAt < t
          THEN [valid |-> FALSE, error |-> "Authorization code expired", codes |-> codes]
          ELSE IF codeData.clientId # clientId
          THEN [valid |-> FALSE, error |-> "Client ID mismatch", codes |-> codes]
          ELSE IF codeData.redirectUri # redirectUri
          THEN [valid |-> FALSE, error |-> "Redirect URI mismatch", codes |-> codes]
          ELSE IF ~validatePKCE(codeVerifier, codeData.codeChallenge,
                                codeData.codeChallengeMethod)
          THEN [valid |-> FALSE, error |-> "Invalid code verifier", codes |-> codes]
          ELSE [valid |-> TRUE, error |-> "", codes |-> codes]

\* a faulty validateAuthorizationCode that deletes the code only when it is redeemed
validateAuthorizationCodeLate(codes, code, clientId, redirectUri, codeVerifier, t) ==
  IF code \notin DOMAIN codes
  THEN [valid |-> FALSE, error |-> "Invalid authorization code", codes |-> codes]
  ELSE LET codeData == codes[code]
           left == MapDel(codes, code)
       IN IF codeData.expiresAt < t
          THEN [valid |-> FALSE, error |-> "Authorization code expired", codes |-> codes]
          ELSE IF codeData.clientId # clientId
          THEN [valid |-> FALSE, error |-> "Client ID mismatch", codes |-> codes]
          ELSE IF codeData.redirectUri # redirectUri
          THEN [valid |-> FALSE, error |-> "Redirect URI mismatch", codes |-> codes]
          ELSE IF ~validatePKCE(codeVerifier, codeData.codeChallenge,
                                codeData.codeChallengeMethod)
          THEN [valid |-> FALSE, error |-> "Invalid code verifier", codes |-> codes]
          ELSE [valid |-> TRUE, error |-> "", codes |-> left]

\* a faulty validateAuthorizationCode that leaves expiry to the reaper
validateAuthorizationCodeNoExpiry(codes, code, clientId, redirectUri, codeVerifier, t) ==
  IF code \notin DOMAIN codes
  THEN [valid |-> FALSE, error |-> "Invalid authorization code", codes |-> codes]
  ELSE LET codeData == codes[code]
           left == MapDel(codes, code)
       IN IF codeData.clientId # clientId
          THEN [valid |-> FALSE, error |-> "Client ID mismatch", codes |-> left]
          ELSE IF codeData.redirectUri # redirectUri
          THEN [valid |-> FALSE, error |-> "Redirect URI mismatch", codes |-> left]
          ELSE IF ~validatePKCE(codeVerifier, codeData.codeChallenge,
                                codeData.codeChallengeMethod)
          THEN [valid |-> FALSE, error |-> "Invalid code verifier", codes |-> left]
          ELSE [valid |-> TRUE, error |-> "", codes |-> left]

\* a faulty validateAuthorizationCode that compares the client before it looks at the expiry
validateAuthorizationCodeClientFirst(codes, code, clientId, redirectUri, codeVerifier, t) ==
  IF code \notin DOMAIN codes
  THEN [valid |-> FALSE, error |-> "Invalid authorization code", codes |-> codes]
  ELSE LET codeData == codes[code]
           left == MapDel(codes, code)
       IN IF codeData.clientId # clientId
          THEN [valid |-> FALSE, error |-> "Client ID mismatch", codes |-> left]
          ELSE IF codeData.expiresAt < t
          THEN [valid |-> FALSE, error |-> "Authorization code expired", codes |-> left]
          ELSE IF codeData.redirectUri # redirectUri
          THEN [valid |-> FALSE, error |-> "Redirect URI mismatch", codes |-> left]
          ELSE IF ~validatePKCE(codeVerifier, codeData.codeChallenge,
                                codeData.codeChallengeMethod)
          THEN [valid |-> FALSE, error |-> "Invalid code verifier", codes |-> left]
          ELSE [valid |-> TRUE, error |-> "", codes |-> left]

\* the answer of validateAuthorizationCode at time t, and the store it leaves
validateAuthorizationCode(codes, code, clientId, redirectUri, codeVerifier, t) ==
  IF code \notin DOMAIN codes
  THEN [valid |-> FALSE, error |-> "Invalid authorization code", codes |-> codes]
  ELSE LET codeData == codes[code]
           left == MapDel(codes, code)
       IN IF codeData.expiresAt < t
          THEN [valid |-> FALSE, error |-> "Authorization code expired", codes |-> left]
          ELSE IF codeData.clientId # clientId
          THEN [valid |-> FALSE, error |-> "Client ID mismatch", codes |-> left]
          ELSE IF codeData.redirectUri # redirectUri
          THEN [valid |-> FALSE, error |-> "Redirect URI mismatch", codes |-> left]
          ELSE IF ~validatePKCE(codeVerifier, codeData.codeChallenge,
                                codeData.codeChallengeMethod)
          THEN [valid |-> FALSE, error |-> "Invalid code verifier", codes |-> left]
          ELSE [valid |-> TRUE, error |-> "", codes |-> left]

\* a faulty sweep that empties the store
cleanupAll(store, t) == EmptyMap

\* a faulty sweep that deletes nothing
cleanupNothing(store, t) == store

\* a faulty sweep that also deletes the entries expiring at this very millisecond
cleanupThrough(store, t) ==
  LET keep == {k \in DOMAIN store : ~(store[k].expiresAt <= t)}
  IN [k \in keep |-> store[k]]

\* what one run of the setInterval callback at time t leaves of a store
cleanup(store, t) ==
  LET keep == {k \in DOMAIN store : ~(store[k].expiresAt < t)}
  IN [k \in keep |-> store[k]]

----------------------------------------------------------------------------
(* The server's state at start *)

Req == 1..MaxReq

\* a slot: where its handler is suspended ("idle": no request), whether the request
\* was authenticated, and the codes other requests redeemed while it waited
Idle == [pc |-> "idle", authed |-> FALSE, seen |-> {}]

\* connections take the lowest free slot
Free(r) == req[r].pc = "idle" /\ \A o \in Req : o < r => req[o].pc # "idle"

NoCall == [name |-> "", kind |-> "none", invoked |-> FALSE, isError |-> FALSE,
           code |-> "", message |-> "", required |-> Null, current |-> Null,
           authed |-> FALSE, thrown |-> "none"]

NoHttp == [kind |-> "none"]

\* no function is applied on its own while the server runs
NoProbe == [fn |-> "none"]

NoAsk == [decodable |-> TRUE, grant |-> "", present |-> {}, client_id |-> "",
          client_secret |-> ""]

NoToken == [kind |-> "token", status |-> 0, error |-> "", desc |-> "",
            validated |-> FALSE, code |-> "", found |-> FALSE, first |-> FALSE,
            correct |-> FALSE, age |-> "none", concurrent |-> FALSE,
            asked |-> NoAsk, access_token |-> "", token_type |-> "", expires_in |-> 0,
            stored |-> 0]

NoMcp == [kind |-> "mcp", status |-> 0, checked |-> FALSE, token |-> "", issued |-> FALSE,
          inStore |-> FALSE, age |-> "none", ok |-> FALSE, route |-> "", host |-> "",
          session |-> "", wwwAuthenticate |-> ""]

InitWith(E) ==
  /\ phase = "boot"
  /\ env \in E
  /\ config = NoConfig
  /\ availableTools = {}
  /\ now = 0
  /\ ticks = 0
  /\ activeTokens = EmptyMap
  /\ authorizationCodes = EmptyMap
  /\ codesCreated = 0
  /\ tokensIssued = 0
  /\ req = [r \in Req |-> Idle]
  /\ callCount = [n \in ToolNames |-> 0]
  /\ dispatches = 0
  /\ lastCall = NoCall
  /\ codeHist = EmptyMap
  /\ tokenHist = EmptyMap
  /\ lastHttp = NoHttp
  /\ probe = NoProbe
  /\ activeTransports = EmptyMap

Init == InitWith(Envs)

oauthVars == <<activeTokens, authorizationCodes, codesCreated, tokensIssued,
               codeHist, tokenHist, lastHttp>>
callVars == <<callCount, dispatches, lastCall>>
bootVars == <<phase, env, config, availableTools>>
clockVars == <<now, ticks>>

\* main(): load and validate the configuration, pick the transport
Main ==
  /\ UNCHANGED <<probe, activeTransports>>
  /\ phase = "boot"
  /\ LET c == loadConfig(env)
     IN /\ config' = c
        /\ IF ~validateConfig(c)
           THEN phase' = "exited" /\ availableTools' = {}
           ELSE /\ availableTools' = getToolsForLevel(c.capabilityLevel)
                /\ phase' = IF useHttp(env, c)
                            THEN IF ~hasApiKey(c) /\ ~hasOAuth(c) THEN "exited" ELSE "http"
                            ELSE "stdio"
  /\ UNCHANGED <<env, clockVars, oauthVars, req, callVars>>

----------------------------------------------------------------------------
(* The clock and the reaper *)

\* the steps the clock is advanced by: a lifetime to the millisecond, and one more
CodeClockSteps == {AUTH_CODE_EXPIRATION * 1000, AUTH_CODE_EXPIRATION * 1000 + 1}
TokenClockSteps == {TOKEN_EXPIRATION * 1000, TOKEN_EXPIRATION * 1000 + 1}
ClockSteps == CodeClockSteps \cup TokenClockSteps

\* the stores are only ever written in HTTP mode: time is let pass there
Tick(d) ==
  /\ UNCHANGED <<probe, activeTransports>>
  /\ phase = "http"
  /\ ticks < MaxTicks
  /\ now' = now + d
  /\ ticks' = ticks + 1
  /\ UNCHANGED <<bootVars, oauthVars, req, callVars>>

\* one run of the setInterval callback
Sweep ==
  /\ UNCHANGED <<probe, activeTransports>>
  /\ phase = "http"
  /\ activeTokens' = cleanup(activeTokens, now)
  /\ authorizationCodes' = cleanup(authorizationCodes, now)
  /\ UNCHANGED <<bootVars, clockVars, codesCreated, tokensIssued, codeHist, tokenHist,
                 lastHttp, req, callVars>>

----------------------------------------------------------------------------
(* GET /authorize *)

\* the code_challenge a PKCE client derives from its verifier
pkceChallenge(verifier, method) == IF method = "S256" THEN S256(verifier) ELSE verifier

\* the queries /authorize is tried with; the client keeps the verifier to itself
AuthorizeQueries ==
  [response_type : {"code"}, client_id : {"cid"},
   redirect_uri : {"https://app/cb"}, verifier : {"abc123"},
   code_challenge_method : {"", "S256"}, state : {""}]
  \cup
  {q \in [response_type : {"code", "token"}, client_id : {"", "cid"},
          redirect_uri : {"", "https://app/cb"}, verifier : {"", "abc123"},
          code_challenge_method : {"S256"}, state : {""}] :
     Cardinality({f \in {"client_id", "redirect_uri", "verifier"} : q[f] = ""})
       + (IF q.response_type = "token" THEN 1 ELSE 0) = 1}

\* the status /authorize answers with, and the error it names
authorizeResponse(responseType, clientId, redirectUri, codeChallenge, c) ==
  IF ~hasOAuth(c) THEN [status |-> 400, error |-> "OAuth not configured"]
  ELSE IF responseType # "code" THEN [status |-> 400, error |-> "unsupported_response_type"]
  ELSE IF clientId = "" THEN [status |-> 400, error |-> "invalid_request"]
  ELSE IF redirectUri = "" THEN [status |-> 400, error |-> "invalid_request"]
  ELSE IF codeChallenge = "" THEN [status |-> 400, error |-> "invalid_request"]
  ELSE [status |-> 302, error |-> ""]

\* the strings new URL() parses; on any other it throws a TypeError
ParsableUrls == {"https://app/cb", "https://evil/cb"}

\* the answer of /authorize as the client sees it (status 0: no answer was sent),
\* with the query it answers and whether a code was created for it
authorizeAnswer(q, status, error, code) ==
  [kind |-> "authorize", status |-> status, error |-> error,
   location |-> IF status = 302
                THEN [uri |-> q.redirect_uri, code |-> code, state |-> q.state]
                ELSE [uri |-> "", code |-> "", state |-> ""],
   created |-> code # "", code |-> code,
   response_type |-> q.response_type, client_id |-> q.client_id,
   redirect_uri |-> q.redirect_uri, challenged |-> q.verifier # "", state |-> q.state]

Authorize(q) ==
  /\ UNCHANGED <<probe, activeTransports>>
  /\ phase = "http"
  /\ LET codeChallenge == IF q.verifier = "" THEN ""
                          ELSE pkceChallenge(q.verifier, q.code_challenge_method)
         codeChallengeMethod == IF q.code_challenge_method # ""
                                THEN q.code_challenge_method ELSE "plain"
         res == authorizeResponse(q.response_type, q.client_id, q.redirect_uri,
                                  codeChallenge, config)
     IN IF res.status # 302
        THEN /\ lastHttp' = authorizeAnswer(q, res.status, res.error, "")
             /\ UNCHANGED <<authorizationCodes, codesCreated, codeHist, phase>>
        ELSE /\ codesCreated < MaxCodes
             /\ LET out == createAuthorizationCode(authorizationCodes, codesCreated + 1,
                                                   q.client_id, q.redirect_uri, codeChallenge,
                                                   codeChallengeMethod, now)
                IN /\ authorizationCodes' = out.codes
                   /\ codeHist' = MapPut(codeHist, out.code,
                                         [clientId |-> q.client_id,
                                          redirectUri |-> q.redirect_uri,
                                          verifier |-> q.verifier,
                                          method |-> codeChallengeMethod,
                                          createdAt |-> now,
                                          attempts |-> 0,
                                          redeemed |-> 0,
                                          allCorrect |-> TRUE,
                                          burned |-> FALSE])
                   /\ IF q.redirect_uri \in ParsableUrls
                      THEN /\ lastHttp' = authorizeAnswer(q, 302, "", out.code)
                           /\ UNCHANGED phase
                      ELSE \* new URL(redirectUri) throws after the code was stored: the
                           \* handler's promise rejects with nothing to catch it, which
                           \* ends the process or only leaves the request unanswered
                           /\ lastHttp' = authorizeAnswer(q, 0, "TypeError: Invalid URL",
                                                          out.code)
                           /\ phase' \in {"http", "exited"}
             /\ codesCreated' = codesCreated + 1
  /\ UNCHANGED <<env, config, availableTools, clockVars, activeTokens, tokensIssued,
                 tokenHist, req, callVars>>

----------------------------------------------------------------------------
(* POST /oauth/token *)

NoBasic == [clientId |-> "", clientSecret |-> ""]

\* parseBasicAuth of a Basic header carrying id:secret: null unless both are non-empty
parseBasicAuth(b) == IF b.clientId = "" \/ b.clientSecret = "" THEN NoBasic ELSE b

NoParams == [grant_type |-> "", client_id |-> "", client_secret |-> "", code |-> "",
             code_verifier |-> "", redirect_uri |-> ""]

\* the codes a client can present: those created so far, and none
PresentableCodes == {""} \cup {randomHex("code", i) : i \in 1..codesCreated}

\* a redemption's parameters: every mix of right and wrong values, and each one missing
AuthCodeParams ==
  [grant_type : {"authorization_code"}, client_id : {"cid", "other"},
   client_secret : {""}, code : PresentableCodes \ {""},
   code_verifier : {"abc123", "xyz789"},
   redirect_uri : {"https://app/cb", "https://evil/cb"}]
  \cup
  {p \in [grant_type : {"authorization_code"}, client_id : {"", "cid"},
          client_secret : {""}, code : PresentableCodes,
          code_verifier : {"", "abc123"}, redirect_uri : {"", "https://app/cb"}] :
     Cardinality({f \in {"client_id", "code", "code_verifier", "redirect_uri"} :
                    p[f] = ""}) = 1}

ClientCredParams ==
  {p \in [grant_type : {"client_credentials"}, client_id : {"", "cid", "other"},
          client_secret : {"", "secret", "secreT"}, code : {""}, code_verifier : {""},
          redirect_uri : {""}] :
     p.client_id = "cid" \/ p.client_secret = "secret"}

OtherParams ==
  [grant_type : {"", "password"}, client_id : {"cid"}, client_secret : {"secret"},
   code : PresentableCodes, code_verifier : {"abc123"}, redirect_uri : {"https://app/cb"}]

\* the token requests the endpoint is tried with
TokenMessages ==
  [contentType : {"application/x-www-form-urlencoded"}, wellFormed : {TRUE},
   basic : {NoBasic}, params : AuthCodeParams \cup ClientCredParams \cup OtherParams]
  \cup
  [contentType : {"application/json"}, wellFormed : BOOLEAN,
   basic : {[clientId |-> "cid", clientSecret |-> "secret"]},
   params : {p \in ClientCredParams : p.client_id = "cid" /\ p.client_secret = ""}]
  \cup
  [contentType : {"text/plain"}, wellFormed : {TRUE}, basic : {NoBasic},
   params : {p \in ClientCredParams : p.client_id = "cid" /\ p.client_secret = "secret"}]

\* a faulty presence check that looks at the code only
missingCodeParamsLax(code, codeVerifier, redirectUri, clientId) == code = ""

\* a faulty presence check that forgets the code verifier
missingCodeParamsNoVerifier(code, codeVerifier, redirectUri, clientId) ==
  code = "" \/ redirectUri = "" \/ clientId = ""

\* !code || !codeVerifier || !redirectUri || !clientId
missingCodeParams(code, codeVerifier, redirectUri, clientId) ==
  code = "" \/ codeVerifier = "" \/ redirectUri = "" \/ clientId = ""

\* the answer of the grant handling, given the parsed parameters, and the stores it leaves
tokenGrant(grantType, code, codeVerifier, redirectUri, clientId, clientSecret, codes, tokens, n, c, t) ==
  LET refuse(status, error, desc, left, validated) ==
        [status |-> status, error |-> error, desc |-> desc, access_token |-> "",
         token_type |-> "", expires_in |-> 0, codes |-> left, tokens |-> tokens,
         issued |-> FALSE, validated |-> validated]
      grant(left, validated) ==
        LET i == issueToken(tokens, n, t)
        IN [status |-> 200, error |-> "", desc |-> "",
            access_token |-> i.response.access_token,
            token_type |-> i.response.token_type,
            expires_in |-> i.response.expires_in, codes |-> left, tokens |-> i.tokens,
            issued |-> TRUE, validated |-> validated]
  IN IF grantType = "authorization_code"
     THEN IF missingCodeParams(code, codeVerifier, redirectUri, clientId)
          THEN refuse(400, "invalid_request",
                      "Missing code, code_verifier, redirect_uri, or client_id", codes, FALSE)
          ELSE LET v == validateAuthorizationCode(codes, code, clientId, redirectUri,
                                                  codeVerifier, t)
               IN IF ~v.valid THEN refuse(400, "invalid_grant", v.error, v.codes, TRUE)
                  ELSE grant(v.codes, TRUE)
     ELSE IF grantType = "client_credentials"
     THEN IF clientId = "" \/ clientSecret = ""
          THEN refuse(400, "invalid_request", "Missing client_id or client_secret",
                      codes, FALSE)
          ELSE IF ~validateClientCredentials(clientId, clientSecret, c)
          THEN refuse(401, "invalid_client", "Invalid client credentials", codes, FALSE)
          ELSE grant(codes, FALSE)
     ELSE refuse(400, "unsupported_grant_type",
                 "Supported grant types: authorization_code, client_credentials",
                 codes, FALSE)

\* what a token request asks for, as its sender meant it: the grant, the names
\* of the parameters it carries in the body or else in a Basic header with both
\* parts, and for a client-credentials request the credentials so carried;
\* a body that cannot be decoded asks for nothing
askOf(m) ==
  LET p == IF m.contentType \in {"application/x-www-form-urlencoded", "application/json"}
                /\ m.wellFormed
           THEN m.params ELSE NoParams
      basic == m.basic.clientId # "" /\ m.basic.clientSecret # ""
      id == IF p.client_id # "" THEN p.client_id
            ELSE IF basic THEN m.basic.clientId ELSE ""
      secret == IF p.client_secret # "" THEN p.client_secret
                ELSE IF basic THEN m.basic.clientSecret ELSE ""
      idSecret == (IF id # "" THEN {"client_id"} ELSE {})
                    \cup (IF secret # "" THEN {"client_secret"} ELSE {})
  IN [decodable |-> m.wellFormed, grant |-> p.grant_type,
      present |-> IF p.grant_type = "authorization_code"
                  THEN {f \in {"code", "code_verifier", "redirect_uri"} : p[f] # ""}
                         \cup (idSecret \ {"client_secret"})
                  ELSE IF p.grant_type = "client_credentials" THEN idSecret
                  ELSE {},
      client_id |-> IF p.grant_type = "client_credentials" THEN id ELSE "",
      client_secret |-> IF p.grant_type = "client_credentials" THEN secret ELSE ""]

\* the request arrives: the handler runs up to its await on the request body
TokenArrive(r) ==
  /\ UNCHANGED <<probe, activeTransports>>
  /\ phase = "http"
  /\ Free(r)
  /\ IF ~hasOAuth(config)
     THEN \* answered at once, whatever the request carries
          /\ \E m \in TokenMessages :
               lastHttp' = [NoToken EXCEPT !.status = 400,
                                           !.error = "unsupported_grant_type",
                                           !.desc = "OAuth is not configured on this server",
                                           !.asked = askOf(m)]
          /\ UNCHANGED req
     ELSE /\ req' = [req EXCEPT ![r] = [Idle EXCEPT !.pc = "tokenBody"]]
          /\ UNCHANGED lastHttp
  /\ UNCHANGED <<bootVars, clockVars, activeTokens, authorizationCodes, codesCreated,
                 tokensIssued, codeHist, tokenHist, callVars>>

\* where a redemption at time t stands in the lifetime of a code created at createdAt
codeAge(createdAt, t) ==
  IF t < createdAt + AUTH_CODE_EXPIRATION * 1000 THEN "within"
  ELSE IF t = createdAt + AUTH_CODE_EXPIRATION * 1000 THEN "at"
  ELSE "past"

\* the body has arrived: the rest of the handler runs in one step
TokenResume(r, m) ==
  /\ UNCHANGED <<probe, activeTransports>>
  /\ phase = "http"
  /\ req[r].pc = "tokenBody"
  /\ IF m.contentType \in {"application/x-www-form-urlencoded", "application/json"}
        /\ ~m.wellFormed
     THEN \* decodeURIComponent or JSON.parse throws: the catch answers 500
          /\ lastHttp' = [NoToken EXCEPT !.status = 500, !.error = "server_error",
                                          !.desc = "Internal server error",
                                          !.asked = askOf(m)]
          /\ req' = [req EXCEPT ![r] = Idle]
          /\ UNCHANGED <<activeTokens, authorizationCodes, codesCreated, tokensIssued,
                         codeHist, tokenHist>>
     ELSE LET p == IF m.contentType \in {"application/x-www-form-urlencoded",
                                          "application/json"}
                   THEN m.params ELSE NoParams
              basicAuth == parseBasicAuth(m.basic)
              clientId == IF p.client_id # "" THEN p.client_id ELSE basicAuth.clientId
              clientSecret == IF p.client_secret # "" THEN p.client_secret
                              ELSE basicAuth.clientSecret
              out == tokenGrant(p.grant_type, p.code, p.code_verifier, p.redirect_uri,
                                clientId, clientSecret, authorizationCodes, activeTokens,
                                tokensIssued + 1, config, now)
              tried == out.validated /\ p.code \in DOMAIN codeHist
              h == codeHist[p.code]
              age == IF tried THEN codeAge(h.createdAt, now) ELSE "none"
              \* the parameters are those the code was created for
              correct == /\ tried
                         /\ clientId = h.clientId
                         /\ p.redirect_uri = h.redirectUri
                         /\ p.code_verifier = h.verifier
                         /\ h.method \in {"S256", "plain"}
          IN \* the client-credentials grant is capped; a code's tokens by the codes
             /\ (out.issued /\ ~out.validated) => tokensIssued < MaxTokens
             /\ authorizationCodes' = out.codes
             /\ activeTokens' = out.tokens
             /\ tokensIssued' = IF out.issued THEN tokensIssued + 1 ELSE tokensIssued
             /\ tokenHist' = IF out.issued
                             THEN MapPut(tokenHist, out.access_token,
                                         [issuedAt |-> now, refused |-> FALSE,
                                          via |-> askOf(m).grant])
                             ELSE tokenHist
             /\ lastHttp' = [kind |-> "token", status |-> out.status, error |-> out.error,
                             desc |-> out.desc, validated |-> out.validated,
                             code |-> IF out.validated THEN p.code ELSE "",
                             found |-> out.validated /\ p.code \in DOMAIN authorizationCodes,
                             first |-> tried /\ h.attempts = 0,
                             correct |-> correct, age |-> age,
                             concurrent |-> tried /\ p.code \in req[r].seen,
                             asked |-> askOf(m),
                             access_token |-> out.access_token,
                             token_type |-> out.token_type,
                             expires_in |-> out.expires_in,
                             stored |-> Cardinality(DOMAIN out.tokens \ DOMAIN activeTokens)]
             /\ codeHist' = IF tried
                            THEN [codeHist EXCEPT
                                    ![p.code].attempts = IF @ < 2 THEN @ + 1 ELSE @,
                                    ![p.code].redeemed = IF out.issued THEN @ + 1 ELSE @,
                                    ![p.code].allCorrect =
                                       @ /\ correct /\ age \in {"within", "at"},
                                    ![p.code].burned =
                                       @ \/ (p.code \in DOMAIN authorizationCodes
                                             /\ ~out.issued)]
                            ELSE codeHist
             /\ req' = [o \in Req |->
                          IF o = r THEN Idle
                          ELSE IF req[o].pc = "tokenBody" /\ tried
                          THEN [req[o] EXCEPT !.seen = @ \cup {p.code}]
                          ELSE req[o]]
             /\ UNCHANGED codesCreated
  /\ UNCHANGED <<bootVars, clockVars, callVars>>

----------------------------------------------------------------------------
(* The call_tool dispatcher *)

\* what a handler that is invoked may do
HandlerOutcomes == {"resolve", "throwError", "throwEmptyError", "throwValue",
                    "resolveUnserializable"}

\* error instanceof Error ? error.message : 'Unknown error', for each way to fail
errorMessage(outcome) ==
  CASE outcome = "throwError" -> "Proxmox is not configured"
    [] outcome = "throwEmptyError" -> ""
    [] outcome = "resolveUnserializable" -> "Converting circular structure to JSON"
    [] OTHER -> "Unknown error"

\* a faulty handler that skips the level check
callToolUngated(toolName, level, outcome) ==
  LET found == getTool(toolName)
      tool == CHOOSE t \in found : TRUE
      base == [NoCall EXCEPT !.name = toolName, !.current = level]
  IN IF found = {}
     THEN [base EXCEPT !.kind = "MethodNotFound"]
     ELSE IF outcome = "resolve"
     THEN [base EXCEPT !.kind = "result", !.invoked = TRUE, !.required = Num(tool.level)]
     ELSE [base EXCEPT !.kind = "result", !.invoked = TRUE, !.required = Num(tool.level),
                       !.isError = TRUE, !.code = "TOOL_EXECUTION_ERROR",
                       !.message = errorMessage(outcome), !.thrown = outcome]

\* the CallToolRequestSchema handler: the outcome of a call of toolName under that level
callTool(toolName, level, outcome) ==
  LET found == getTool(toolName)
      tool == CHOOSE t \in found : TRUE
      base == [NoCall EXCEPT !.name = toolName, !.current = level]
  IN IF found = {}
     THEN [base EXCEPT !.kind = "MethodNotFound"]
     ELSE IF JsGt(Num(tool.level), level)
     THEN [base EXCEPT !.kind = "InvalidRequest", !.required = Num(tool.level)]
     ELSE IF outcome = "resolve"
     THEN [base EXCEPT !.kind = "result", !.invoked = TRUE, !.required = Num(tool.level)]
     ELSE [base EXCEPT !.kind = "result", !.invoked = TRUE, !.required = Num(tool.level),
                       !.isError = TRUE, !.code = "TOOL_EXECUTION_ERROR",
                       !.message = errorMessage(outcome), !.thrown = outcome]

\* a faulty dispatcher that lets the call after a denial through
DispatchRetried(toolName, outcome, authed) ==
  /\ dispatches < MaxDispatch
  /\ LET level == IF lastCall.kind = "InvalidRequest" THEN Num(4)
                  ELSE config.capabilityLevel
         res == callTool(toolName, level, outcome)
     IN /\ lastCall' = [res EXCEPT !.authed = authed, !.current = config.capabilityLevel]
        /\ callCount' = IF res.invoked
                        THEN [callCount EXCEPT ![toolName] = @ + 1]
                        ELSE callCount
  /\ dispatches' = dispatches + 1

\* the dispatcher's bookkeeping after a call_tool request
Dispatch(toolName, outcome, authed) ==
  /\ dispatches < MaxDispatch
  /\ LET res == callTool(toolName, config.capabilityLevel, outcome)
     IN /\ lastCall' = [res EXCEPT !.authed = authed]
        /\ callCount' = IF res.invoked
                        THEN [callCount EXCEPT ![toolName] = @ + 1]
                        ELSE callCount
  /\ dispatches' = dispatches + 1

\* stdio mode: a call_tool request read from standard input
StdioCallTool(toolName, outcome) ==
  /\ UNCHANGED <<probe, activeTransports>>
  /\ phase = "stdio"
  /\ Dispatch(toolName, outcome, FALSE)
  /\ UNCHANGED <<bootVars, clockVars, oauthVars, req>>

----------------------------------------------------------------------------
(* The MCP endpoint, /mcp or / *)

\* the bearer values a client can present: issued tokens, keys, and none
PresentableTokens == {"", "key", "wrong"} \cup {randomHex("tok", i) : i \in 1..tokensIssued}

AuthHeaders == {[scheme |-> "none", token |-> ""], [scheme |-> "Basic", token |-> "key"]}
               \cup [scheme : {"Bearer"}, token : PresentableTokens]

\* where a check at time t stands in the lifetime of a token issued at issuedAt
tokenAge(issuedAt, t) ==
  IF t < issuedAt + TOKEN_EXPIRATION * 1000 THEN "within"
  ELSE IF t = issuedAt + TOKEN_EXPIRATION * 1000 THEN "at"
  ELSE "past"

\* the Host and Mcp-Session-Id headers of a request ("": absent), and whether
\* later requests will name the session this one opens
PlainHeaders == [host |-> "", sessionId |-> "", named |-> FALSE]

\* getBaseUrl
getBaseUrl(host) == "https://" \o (IF host = "" THEN "mcp.handley.io" ELSE host)

\* the WWW-Authenticate header sendUnauthorized writes
sendUnauthorized(host) ==
  "Bearer resource_metadata=\"" \o getBaseUrl(host)
     \o "/.well-known/oauth-protected-resource\""

\* a faulty endpoint that looks for the session before it authenticates
mcpRouteSessionFirst(isAuthenticated, method, sessionId, transports) ==
  IF method = "POST" /\ sessionId # "" /\ sessionId \in DOMAIN transports THEN "reuse"
  ELSE IF ~isAuthenticated THEN "unauthorized"
  ELSE IF method = "GET" THEN "info"
  ELSE "new"

\* what the endpoint does with a request: authentication first, then GET, then
\* the session named by Mcp-Session-Id, then a new session
mcpRoute(isAuthenticated, method, sessionId, transports) ==
  IF ~isAuthenticated THEN "unauthorized"
  ELSE IF method = "GET" THEN "info"
  ELSE IF sessionId # "" /\ sessionId \in DOMAIN transports THEN "reuse"
  ELSE "new"

\* the request arrives: authentication, then, for a POST, the await on the transport
McpArrive(r, method, h, o) ==
  /\ UNCHANGED probe
  /\ phase = "http"
  /\ Free(r)
  /\ LET checked == h.scheme = "Bearer"
         v == validateAccessToken(activeTokens, h.token, config, now)
         isAuthenticated == checked /\ v.ok
         issued == checked /\ h.token \in DOMAIN tokenHist
         route == mcpRoute(isAuthenticated, method, o.sessionId, activeTransports)
         requestId == randomHex("req", Cardinality(DOMAIN activeTransports) + 1)
     IN \* the sessions later requests name are capped
        /\ (route = "new" /\ o.named) => Cardinality(DOMAIN activeTransports) < MaxSessions
        /\ activeTokens' = IF checked THEN v.tokens ELSE activeTokens
        /\ lastHttp' = [kind |-> "mcp",
                        status |-> IF route = "unauthorized" THEN 401 ELSE 200,
                        checked |-> checked,
                        token |-> IF checked THEN h.token ELSE "",
                        issued |-> issued,
                        inStore |-> checked /\ h.token \in DOMAIN activeTokens,
                        age |-> IF issued THEN tokenAge(tokenHist[h.token].issuedAt, now)
                                ELSE "none",
                        ok |-> isAuthenticated,
                        route |-> route,
                        host |-> o.host,
                        session |-> o.sessionId,
                        wwwAuthenticate |-> IF route = "unauthorized"
                                            THEN sendUnauthorized(o.host) ELSE ""]
        /\ tokenHist' = IF issued /\ ~v.ok
                        THEN [tokenHist EXCEPT ![h.token].refused = TRUE]
                        ELSE tokenHist
        /\ req' = IF route \in {"reuse", "new"}
                  THEN [req EXCEPT ![r] = [Idle EXCEPT !.pc = "mcpBody",
                                                       !.authed = isAuthenticated]]
                  ELSE req
        /\ activeTransports' = IF route = "new" /\ o.named
                               THEN MapPut(activeTransports, requestId,
                                           [openedWith |-> h.token])
                               ELSE activeTransports
  /\ UNCHANGED <<bootVars, clockVars, authorizationCodes, codesCreated, tokensIssued,
                 codeHist, callVars>>

\* the transport hands the request's call_tool message to the dispatcher
McpCallTool(r, toolName, outcome) ==
  /\ UNCHANGED <<probe, activeTransports>>
  /\ phase = "http"
  /\ req[r].pc = "mcpBody"
  /\ Dispatch(toolName, outcome, req[r].authed)
  /\ req' = [req EXCEPT ![r] = Idle]
  /\ UNCHANGED <<bootVars, clockVars, oauthVars>>

----------------------------------------------------------------------------
(* The whole server *)

Next ==
  \/ Main
  \/ \E d \in ClockSteps : Tick(d)
  \/ Sweep
  \/ \E q \in AuthorizeQueries : Authorize(q)
  \/ \E r \in Req : TokenArrive(r)
  \/ \E r \in Req, m \in TokenMessages : TokenResume(r, m)
  \/ \E r \in Req, method \in {"GET", "POST"}, h \in AuthHeaders :
       McpArrive(r, method, h, PlainHeaders)
  \/ \E r \in Req, n \in RequestedNames, o \in HandlerOutcomes : McpCallTool(r, n, o)
  \/ \E n \in RequestedNames, o \in HandlerOutcomes : StdioCallTool(n, o)

Spec == Init /\ [][Next]_vars

(* The authorization-code flow alone: HTTP mode with OAuth configured, the      *)
(* default level, no MCP traffic.  No step of the flow reads the dispatcher's   *)
(* state or the answers of the MCP endpoint.                                    *)

EnvsCodes == {e \in Envs : /\ e.CAPABILITY_LEVEL = <<>>
                           /\ e.PORT # <<>>
                           /\ e.MCP_TRANSPORT = ""
                           /\ e.API_KEY = ""
                           /\ e.OAUTH_CLIENT_ID # ""
                           /\ e.OAUTH_CLIENT_SECRET # ""}

NextCodes ==
  \/ Main
  \/ \E d \in CodeClockSteps : Tick(d)
  \/ Sweep
  \/ \E q \in AuthorizeQueries : Authorize(q)
  \/ \E r \in Req : TokenArrive(r)
  \/ \E r \in Req, m \in TokenMessages : TokenResume(r, m)

SpecCodes == InitWith(EnvsCodes) /\ [][NextCodes]_vars

(* The life of access tokens: the same, with a static API key next to OAuth    *)
(* and with the MCP endpoint's authentication.                                  *)

EnvsTokens == {e \in Envs : /\ e.CAPABILITY_LEVEL = <<>>
                            /\ e.PORT # <<>>
                            /\ e.MCP_TRANSPORT = ""
                            /\ e.API_KEY # ""
                            /\ e.OAUTH_CLIENT_ID # ""
                            /\ e.OAUTH_CLIENT_SECRET # ""}

\* the token requests that matter to a token's life: complete redemptions and
\* client-credentials requests naming the configured client
IssuingMessages ==
  {m \in TokenMessages :
     /\ m.contentType = "application/x-www-form-urlencoded"
     /\ \/ m.params.grant_type = "client_credentials" /\ m.params.client_id = "cid"
        \/ /\ m.params.grant_type = "authorization_code"
           /\ m.params.client_id = "cid"
           /\ m.params.code # ""
           /\ m.params.code_verifier # ""
           /\ m.params.redirect_uri = "https://app/cb"}

NextTokens ==
  \/ Main
  \/ \E d \in TokenClockSteps : Tick(d)
  \/ Sweep
  \/ \E q \in AuthorizeQueries : Authorize(q)
  \/ \E r \in Req : TokenArrive(r)
  \/ \E r \in Req, m \in IssuingMessages : TokenResume(r, m)
  \/ \E r \in Req, h \in AuthHeaders : McpArrive(r, "GET", h, PlainHeaders)

SpecTokens == InitWith(EnvsTokens) /\ [][NextTokens]_vars

(* The capability gate alone: every level, port, transport and API key, OAuth   *)
(* configured in full or not at all, with the static API key as the credential. *)
(* Dispatch reads the configuration and the request's authentication only.      *)

EnvsGate == {e \in Envs : (e.OAUTH_CLIENT_ID = "") <=> (e.OAUTH_CLIENT_SECRET = "")}

NextGate ==
  \/ Main
  \/ \E r \in Req, method \in {"GET", "POST"}, h \in AuthHeaders :
       McpArrive(r, method, h, PlainHeaders)
  \/ \E r \in Req, n \in RequestedNames, o \in HandlerOutcomes : McpCallTool(r, n, o)
  \/ \E n \in RequestedNames, o \in HandlerOutcomes : StdioCallTool(n, o)

SpecGate == InitWith(EnvsGate) /\ [][NextGate]_vars

----------------------------------------------------------------------------
(* Properties of the authorization-code flow, in SpecCodes *)

\* the latest answer is that of a redemption that reached validateAuthorizationCode
Redemption == lastHttp.kind = "token" /\ lastHttp.validated

InvalidCode == "Invalid authorization code"
CodeExpired == "Authorization code expired"

\* C1: a code is redeemed at most once.  The first validateAuthorizationCode call
\* for a code, made before its expiry with the client, the redirect URI and the
\* verifier it was created for, succeeds; every later call with that code,
\* whatever its parameters, fails with "Invalid authorization code"; no code
\* ever counts two successful redemptions.
C1_SingleRedemption ==
  /\ \A c \in DOMAIN codeHist : codeHist[c].redeemed <= 1
  /\ Redemption =>
       /\ (lastHttp.first /\ lastHttp.correct /\ lastHttp.age = "within")
            => lastHttp.status = 200
       /\ ~lastHttp.first => (lastHttp.status = 400 /\ lastHttp.desc = InvalidCode)

\* C1: a second redemption with the right parameters, inside the lifetime of a
\* code that was redeemed once, has just been refused
C1_SecondRefused ==
  /\ Redemption
  /\ ~lastHttp.first /\ lastHttp.correct /\ lastHttp.age = "within"
  /\ lastHttp.desc = InvalidCode
  /\ codeHist[lastHttp.code].redeemed = 1

\* C2: a validateAuthorizationCode call that finds the code and then fails
\* leaves the code out of the store; a following redemption of that code with
\* the right client, redirect URI and verifier fails with "Invalid
\* authorization code"; no token is ever issued for a code that failed so.
C2_FailureBurnsCode ==
  /\ (Redemption /\ lastHttp.found /\ lastHttp.status # 200)
       => lastHttp.code \notin DOMAIN authorizationCodes
  /\ \A c \in DOMAIN codeHist :
       codeHist[c].burned => (codeHist[c].redeemed = 0 /\ c \notin DOMAIN authorizationCodes)
  /\ (Redemption /\ ~lastHttp.first /\ lastHttp.correct /\ codeHist[lastHttp.code].burned)
       => (lastHttp.status = 400 /\ lastHttp.desc = InvalidCode)

\* C2: a redemption with the right parameters, inside the lifetime of a code
\* that a failed attempt has burned, has just been refused
C2_RetryRefused ==
  /\ Redemption
  /\ ~lastHttp.first /\ lastHttp.correct /\ lastHttp.age = "within"
  /\ codeHist[lastHttp.code].burned
  /\ lastHttp.desc = InvalidCode
  /\ tokensIssued = 0

\* C3: of the token requests that carry the same code, in flight together or
\* not, at most one is answered 200 and every other is answered 400
\* invalid_grant; when all of them carry the right parameters inside the code's
\* lifetime exactly one is answered 200, and one token is issued for the code.
C3_OneWinner ==
  /\ \A c \in DOMAIN codeHist :
       /\ codeHist[c].redeemed <= 1
       /\ (codeHist[c].attempts >= 1 /\ codeHist[c].allCorrect) => codeHist[c].redeemed = 1
  /\ (Redemption /\ ~lastHttp.first)
       => (lastHttp.status = 400 /\ lastHttp.error = "invalid_grant")
  /\ (Redemption /\ lastHttp.status = 200) => lastHttp.first

\* C3: two requests with the same code and the right parameters were suspended
\* on their bodies together; the one resumed last has just been answered 400
C3_LoserOfTheRace ==
  /\ Redemption
  /\ lastHttp.concurrent /\ lastHttp.correct
  /\ lastHttp.status = 400 /\ lastHttp.error = "invalid_grant"
  /\ codeHist[lastHttp.code].allCorrect
  /\ codeHist[lastHttp.code].attempts = 2
  /\ codeHist[lastHttp.code].redeemed = 1

\* C9 as stated: a code found in the store (the reaper has not removed it) and
\* redeemed with the right parameters fails with "Authorization code expired"
\* from the moment the clock is 600 seconds past its creation.
C9_ExpiredFrom600s ==
  (Redemption /\ lastHttp.found /\ lastHttp.correct /\ lastHttp.age \in {"at", "past"})
    => (lastHttp.status = 400 /\ lastHttp.desc = CodeExpired)

\* C9: a code found in the store fails redemption with "Authorization code
\* expired" once the clock is more than 600 seconds past its creation, whatever
\* the other parameters; at 600 seconds exactly it is still redeemed.
C9_ExpiredPast600s ==
  /\ (Redemption /\ lastHttp.found /\ lastHttp.age = "past")
       => (lastHttp.status = 400 /\ lastHttp.desc = CodeExpired)
  /\ (Redemption /\ lastHttp.found /\ lastHttp.correct /\ lastHttp.age = "at")
       => lastHttp.status = 200

\* C9: a code the reaper has not removed was redeemed with the right parameters
\* more than 600 seconds after its creation, and refused as expired
C9_UnsweptExpired ==
  /\ Redemption
  /\ lastHttp.found /\ lastHttp.correct /\ lastHttp.age = "past"
  /\ lastHttp.desc = CodeExpired

----------------------------------------------------------------------------
(* Properties of access tokens, in SpecTokens *)

\* the latest answer is that of the MCP endpoint to a bearer token issueToken made
IssuedTokenChecked == lastHttp.kind = "mcp" /\ lastHttp.issued

\* C8 as stated: an issued token fails validateAccessToken from the moment the
\* clock is 3600 seconds past its issuance, swept or not.
C8_InvalidFrom3600s ==
  (IssuedTokenChecked /\ lastHttp.age \in {"at", "past"}) => ~lastHttp.ok

\* C8: an issued token fails validateAccessToken once the clock is more than
\* 3600 seconds past its issuance, swept or not; at 3600 seconds exactly it is
\* still accepted.
C8_InvalidPast3600s ==
  /\ (IssuedTokenChecked /\ lastHttp.age = "past") => ~lastHttp.ok
  /\ (IssuedTokenChecked /\ lastHttp.age = "at") => lastHttp.ok

\* C8: a token the reaper has not removed was presented more than 3600 seconds
\* after its issuance, and refused
C8_UnsweptRefused ==
  /\ IssuedTokenChecked
  /\ lastHttp.inStore /\ lastHttp.age = "past"
  /\ ~lastHttp.ok /\ lastHttp.status = 401

\* C10: a stored token's expiresAt is its issue time + 3600 s, whatever has
\* happened since (validations, issuances, code operations, sweeps); a token is
\* accepted only inside that window, and never after it was refused once.
C10_FixedWindow ==
  /\ \A t \in DOMAIN activeTokens :
       /\ t \in DOMAIN tokenHist
       /\ activeTokens[t].expiresAt = tokenHist[t].issuedAt + TOKEN_EXPIRATION * 1000
  /\ (IssuedTokenChecked /\ lastHttp.ok)
       => /\ lastHttp.age \in {"within", "at"}
          /\ lastHttp.inStore
          /\ ~tokenHist[lastHttp.token].refused

\* C10: a token issued at time 0 is accepted at the last millisecond of its
\* window, after the issuance of another token and the creation of a code
C10_AcceptedAtWindowEnd ==
  /\ IssuedTokenChecked
  /\ lastHttp.ok /\ lastHttp.age = "at"
  /\ tokenHist[lastHttp.token].issuedAt = 0
  /\ tokensIssued >= 2 /\ codesCreated >= 1
  /\ activeTokens[lastHttp.token].expiresAt = TOKEN_EXPIRATION * 1000

----------------------------------------------------------------------------
(* Properties of the capability gate, in SpecGate *)

\* the tool the latest dispatch named, when it is registered
LastTool == CHOOSE t \in getTool(lastCall.name) : TRUE

\* C4 as stated: a handler is invoked only if the tool's level is at most the
\* configured level and the request came with a valid bearer credential, in
\* each transport mode.
C4_LevelAndCredential ==
  /\ lastCall.invoked => (JsLe(lastCall.required, lastCall.current) /\ lastCall.authed)
  /\ \A t \in ALL_TOOLS :
       callCount[t.name] > 0 => JsLe(Num(t.level), config.capabilityLevel)

\* C4: with CAPABILITY_LEVEL=abc the server runs in HTTP mode and has invoked
\* the level-4 handler for an authenticated request
C4_NaNLevelOpensGate ==
  /\ phase = "http"
  /\ config.capabilityLevel = NaN
  /\ lastCall.invoked /\ lastCall.authed
  /\ lastCall.name = "docker_exec"
  /\ availableTools = {}

\* C5: a dispatch of a registered tool whose level is greater than the
\* configured one fails with InvalidRequest, the error naming the required and
\* the current level; the handler of such a tool is never invoked.
C5_DeniedAboveLevel ==
  /\ \A t \in ALL_TOOLS :
       JsGt(Num(t.level), config.capabilityLevel) => callCount[t.name] = 0
  /\ (lastCall.kind # "none" /\ getTool(lastCall.name) # {}
        /\ JsGt(Num(LastTool.level), config.capabilityLevel))
       => /\ lastCall.kind = "InvalidRequest"
          /\ ~lastCall.invoked
          /\ lastCall.required = Num(LastTool.level)
          /\ lastCall.current = config.capabilityLevel

\* C5: at level 3 the level-4 tool was dispatched twice and denied, its handler
\* never invoked
C5_Level4DeniedTwice ==
  /\ config.capabilityLevel = Num(3)
  /\ dispatches = MaxDispatch
  /\ lastCall.kind = "InvalidRequest" /\ lastCall.name = "docker_exec"
  /\ lastCall.required = Num(4) /\ lastCall.current = Num(3)
  /\ callCount["docker_exec"] = 0

\* the names of the registered tools of level <= l
NamesUpTo(l) == {t.name : t \in {u \in ALL_TOOLS : u.level <= l}}

\* C6: under a configured level L in 1..4 a dispatch reaches a handler exactly
\* when the name is registered with a level <= L; these are the tools
\* tools/list answers with; an unregistered name fails with MethodNotFound,
\* no level compared and no handler invoked.
C6_ReachableIsListed ==
  \A l \in 1..4 :
    (phase \in {"http", "stdio"} /\ config.capabilityLevel = Num(l)) =>
      /\ {t.name : t \in availableTools} = NamesUpTo(l)
      /\ \A n \in ToolNames : callCount[n] > 0 => n \in NamesUpTo(l)
      /\ lastCall.kind # "none" =>
           /\ lastCall.invoked <=> lastCall.name \in NamesUpTo(l)
           /\ getTool(lastCall.name) = {} =>
                (lastCall.kind = "MethodNotFound" /\ lastCall.required = Null)

\* C6: at level 2 the level-2 tool's handler has run, and a dispatch of an
\* unregistered name has just failed with MethodNotFound
C6_Level2Reached ==
  /\ config.capabilityLevel = Num(2)
  /\ callCount["docker_restart_container"] = 1
  /\ callCount["docker_read_compose"] = 0
  /\ lastCall.kind = "MethodNotFound" /\ lastCall.name = "no_such_tool"

\* C7 as stated: whatever a handler that passed the gate throws, the dispatcher
\* answers a result with isError, code TOOL_EXECUTION_ERROR and a non-empty
\* message.
C7_ErrorEnvelope ==
  lastCall.thrown # "none"
    => /\ lastCall.kind = "result"
       /\ lastCall.isError
       /\ lastCall.code = "TOOL_EXECUTION_ERROR"
       /\ lastCall.message # ""

\* C7: a handler threw an Error whose message is empty, and the envelope's
\* message is empty
C7_EmptyMessage ==
  /\ lastCall.thrown = "throwEmptyError"
  /\ lastCall.kind = "result" /\ lastCall.isError
  /\ lastCall.code = "TOOL_EXECUTION_ERROR"
  /\ lastCall.message = ""

----------------------------------------------------------------------------
(* Functions of oauth.ts applied on their own *)

\* the state when no server is started and a function is applied to one of inputs
UnitInit(inputs) ==
  /\ phase = "unit"
  /\ env \in EnvsCodes
  /\ config = NoConfig
  /\ availableTools = {}
  /\ now = 0
  /\ ticks = 0
  /\ activeTokens = EmptyMap
  /\ authorizationCodes = EmptyMap
  /\ codesCreated = 0
  /\ tokensIssued = 0
  /\ req = [r \in Req |-> Idle]
  /\ callCount = [n \in ToolNames |-> 0]
  /\ dispatches = 0
  /\ lastCall = NoCall
  /\ codeHist = EmptyMap
  /\ tokenHist = EmptyMap
  /\ lastHttp = NoHttp
  /\ probe \in inputs
  /\ activeTransports = EmptyMap

serverVars == <<bootVars, clockVars, oauthVars, req, callVars, activeTransports>>

\* the verifiers, challenges and methods validatePKCE is tried with
PkceVerifiers == {"", "abc123", "xyz789"}
PkceChallenges == PkceVerifiers \cup {S256(v) : v \in PkceVerifiers}
PkceMethods == {"S256", "plain", "S512", "s256", ""}

PkceInputs ==
  [fn : {"validatePKCE"}, codeVerifier : PkceVerifiers, codeChallenge : PkceChallenges,
   codeChallengeMethod : PkceMethods, applied : {FALSE}, result : {FALSE}]

ApplyPKCE ==
  /\ phase = "unit"
  /\ probe.fn = "validatePKCE"
  /\ ~probe.applied
  /\ probe' = [probe EXCEPT !.applied = TRUE,
                            !.result = validatePKCE(probe.codeVerifier, probe.codeChallenge,
                                                    probe.codeChallengeMethod)]
  /\ UNCHANGED serverVars

(* PKCE: validatePKCE on its own, and the authorization-code flow with every    *)
(* code_challenge_method a client may name, the clock standing still.           *)

PkceQueries ==
  [response_type : {"code"}, client_id : {"cid"}, redirect_uri : {"https://app/cb"},
   verifier : {"abc123"}, code_challenge_method : {"", "S256", "plain", "S512"},
   state : {""}]

PkceMessages ==
  [contentType : {"application/x-www-form-urlencoded"}, wellFormed : {TRUE},
   basic : {NoBasic},
   params : [grant_type : {"authorization_code"}, client_id : {"cid"},
             client_secret : {""}, code : PresentableCodes \ {""},
             code_verifier : {"abc123", "xyz789", S256("abc123")},
             redirect_uri : {"https://app/cb"}]]

NextPkce ==
  \/ ApplyPKCE
  \/ Main
  \/ \E q \in PkceQueries : Authorize(q)
  \/ \E r \in Req : TokenArrive(r)
  \/ \E r \in Req, m \in PkceMessages : TokenResume(r, m)

SpecPkce == (InitWith(EnvsCodes) \/ UnitInit(PkceInputs)) /\ [][NextPkce]_vars

\* C11: validatePKCE answers true exactly when the stored method is S256 and
\* base64url(SHA-256(verifier)) is the stored challenge, or the stored method
\* is plain and the verifier is the stored challenge; under any other method
\* it answers false.  In the flow a redemption succeeds only with the verifier
\* the challenge was made from under S256 or plain, and a code created with
\* any other code_challenge_method is never redeemed.
C11_PkceDecides ==
  /\ (probe.fn = "validatePKCE" /\ probe.applied) =>
       (probe.result <=>
          \/ probe.codeChallengeMethod = "S256"
               /\ S256(probe.codeVerifier) = probe.codeChallenge
          \/ probe.codeChallengeMethod = "plain"
               /\ probe.codeVerifier = probe.codeChallenge)
  /\ \A c \in DOMAIN codeHist :
       /\ codeHist[c].method \notin {"S256", "plain"} => codeHist[c].redeemed = 0
       /\ c \in DOMAIN authorizationCodes =>
            authorizationCodes[c].codeChallengeMethod = codeHist[c].method
  /\ (Redemption /\ lastHttp.status = 200) => lastHttp.correct
  /\ (Redemption /\ lastHttp.found) =>
       (lastHttp.desc = "Invalid code verifier" <=> ~lastHttp.correct)

\* C11: a code created with code_challenge_method=S512 was presented with the
\* verifier its challenge was made from, and refused at the PKCE step
C11_UnsupportedMethodRefused ==
  /\ Redemption
  /\ lastHttp.found
  /\ codeHist[lastHttp.code].method = "S512"
  /\ codeHist[lastHttp.code].verifier = "abc123"
  /\ lastHttp.desc = "Invalid code verifier"
  /\ codeHist[lastHttp.code].redeemed = 0

----------------------------------------------------------------------------
(* Clients: /authorize with every mix of present, missing and wrong parameters, *)
(* and redemptions by the configured client and by another, the clock standing  *)
(* still.                                                                       *)

ClientQueries ==
  [response_type : {"", "code", "token"}, client_id : {"", "cid", "other"},
   redirect_uri : {"", "https://app/cb", "not a url"}, verifier : {"", "abc123"},
   code_challenge_method : {"S256"}, state : {"", "st"}]

ClientMessages ==
  [contentType : {"application/x-www-form-urlencoded"}, wellFormed : {TRUE},
   basic : {NoBasic},
   params : [grant_type : {"authorization_code"}, client_id : {"cid", "other"},
             client_secret : {""}, code : PresentableCodes \ {""},
             code_verifier : {"abc123"},
             redirect_uri : {"https://app/cb", "not a url"}]]

NextClients ==
  \/ Main
  \/ \E q \in ClientQueries : Authorize(q)
  \/ \E r \in Req : TokenArrive(r)
  \/ \E r \in Req, m \in ClientMessages : TokenResume(r, m)

SpecClients == InitWith(EnvsCodes) /\ [][NextClients]_vars

\* the query /authorize has just answered names the code response type, the
\* configured client, a redirect URI that is a URL, and a code challenge
AuthorizeQueryValid ==
  /\ lastHttp.response_type = "code"
  /\ lastHttp.client_id = config.oauthClientId
  /\ lastHttp.redirect_uri \in ParsableUrls
  /\ lastHttp.challenged

\* C12 as stated: /authorize answers 400 and creates no code when one of
\* response_type, client_id, redirect_uri, code_challenge is missing or invalid
\* (a client_id other than the configured one is invalid); with all four valid
\* it creates a code and answers 302 to redirect_uri with that code and the
\* given state.
C12_AuthorizeValidates ==
  lastHttp.kind = "authorize" =>
    IF AuthorizeQueryValid
    THEN /\ lastHttp.status = 302
         /\ lastHttp.created
         /\ lastHttp.location = [uri |-> lastHttp.redirect_uri, code |-> lastHttp.code,
                                 state |-> lastHttp.state]
    ELSE lastHttp.status = 400 /\ ~lastHttp.created

\* C12: /authorize has answered 302 and stored a code for a client_id that is
\* not the configured one
C12_ForeignClientAuthorized ==
  /\ lastHttp.kind = "authorize"
  /\ lastHttp.client_id = "other" /\ config.oauthClientId = "cid"
  /\ lastHttp.status = 302 /\ lastHttp.created
  /\ lastHttp.code \in DOMAIN authorizationCodes
  /\ authorizationCodes[lastHttp.code].clientId = "other"

\* C13 as stated: every code is created for the configured client, and every
\* token of the authorization_code grant is issued for a code of the
\* configured client.
C13_OnlyConfiguredClient ==
  phase = "http" =>
    /\ \A c \in DOMAIN codeHist : codeHist[c].clientId = config.oauthClientId
    /\ (Redemption /\ lastHttp.status = 200)
         => codeHist[lastHttp.code].clientId = config.oauthClientId

\* C13: a token has been issued through the authorization_code grant to a
\* client_id that is not the configured one
C13_ForeignClientToken ==
  /\ Redemption /\ lastHttp.status = 200
  /\ codeHist[lastHttp.code].clientId = "other" /\ config.oauthClientId = "cid"
  /\ tokensIssued = 1
  /\ randomHex("tok", 1) \in DOMAIN activeTokens

----------------------------------------------------------------------------
(* The grants of the token endpoint: every way to carry the parameters, on a   *)
(* server with OAuth configured and on one with the static API key alone.      *)

EnvsGrants == {e \in Envs : /\ e.CAPABILITY_LEVEL = <<>>
                            /\ e.PORT # <<>>
                            /\ e.MCP_TRANSPORT = ""
                            /\ e.API_KEY # ""
                            /\ (e.OAUTH_CLIENT_ID = "") = (e.OAUTH_CLIENT_SECRET = "")}

\* Basic headers: the configured client, another one, and headers lacking a part
BasicHeaders == {[clientId |-> "cid", clientSecret |-> "secret"],
                 [clientId |-> "other", clientSecret |-> "secret"],
                 [clientId |-> "cid", clientSecret |-> ""],
                 [clientId |-> "", clientSecret |-> "secret"]}

\* the token requests of TokenMessages, and: credentials carried by a Basic
\* header, alone or next to the body's; a redemption naming its client by a
\* Basic header; a form body that cannot be decoded
GrantMessages ==
  TokenMessages
  \cup
  [contentType : {"application/x-www-form-urlencoded"}, wellFormed : {TRUE},
   basic : BasicHeaders,
   params : [grant_type : {"client_credentials"}, client_id : {"", "cid"},
             client_secret : {"", "secret"}, code : {""}, code_verifier : {""},
             redirect_uri : {""}]]
  \cup
  [contentType : {"application/x-www-form-urlencoded"}, wellFormed : {TRUE},
   basic : BasicHeaders,
   params : [grant_type : {"authorization_code"}, client_id : {""},
             client_secret : {""}, code : PresentableCodes \ {""},
             code_verifier : {"abc123"}, redirect_uri : {"https://app/cb"}]]
  \cup
  [contentType : {"application/x-www-form-urlencoded"}, wellFormed : {FALSE},
   basic : {NoBasic},
   params : {p \in AuthCodeParams \cup ClientCredParams :
               p.client_id = "cid" /\ p.code_verifier \in {"", "abc123"}
               /\ p.redirect_uri \in {"", "https://app/cb"}
               /\ p.client_secret \in {"", "secret"}}]

NextGrants ==
  \/ Main
  \/ \E q \in AuthorizeQueries : Authorize(q)
  \/ \E r \in Req : TokenArrive(r)
  \/ \E r \in Req, m \in GrantMessages : TokenResume(r, m)

SpecGrants == InitWith(EnvsGrants) /\ [][NextGrants]_vars

\* the latest answer is that of the token endpoint to a request of this grant
TokenAnswerTo(grant) == lastHttp.kind = "token" /\ lastHttp.asked.grant = grant

CodeGrantParams == {"code", "code_verifier", "redirect_uri", "client_id"}

\* the request just answered carried the four parameters, for a code nobody had
\* tried before, with the values the code was created for, within its lifetime
RedemptionSucceeds ==
  /\ lastHttp.asked.present = CodeGrantParams
  /\ lastHttp.first
  /\ lastHttp.correct
  /\ lastHttp.age \in {"within", "at"}

\* the answers of the authorization_code grant, as stated for every server
CodeGrantAnswers ==
  /\ (lastHttp.status = 200) = RedemptionSucceeds
  /\ lastHttp.status = 200 =>
       /\ lastHttp.access_token # ""
       /\ lastHttp.token_type = "Bearer"
       /\ lastHttp.expires_in = 3600
  /\ lastHttp.asked.present # CodeGrantParams =>
       lastHttp.status = 400 /\ lastHttp.error = "invalid_request"
  /\ (lastHttp.asked.present = CodeGrantParams /\ ~RedemptionSucceeds) =>
       lastHttp.status = 400 /\ lastHttp.error = "invalid_grant"
  /\ lastHttp.stored = IF lastHttp.status = 200 THEN 1 ELSE 0

\* the answer of a server without OAuth to every token request
NotConfiguredAnswer ==
  /\ lastHttp.status = 400
  /\ lastHttp.error = "unsupported_grant_type"
  /\ lastHttp.stored = 0

CredentialsMatch ==
  /\ lastHttp.asked.client_id = config.oauthClientId
  /\ lastHttp.asked.client_secret = config.oauthClientSecret

\* the answers of the client_credentials grant, as stated for every server
ClientGrantAnswers ==
  /\ (lastHttp.status = 200) =
       (lastHttp.asked.present = {"client_id", "client_secret"} /\ CredentialsMatch)
  /\ lastHttp.status = 200 =>
       /\ lastHttp.access_token # ""
       /\ lastHttp.token_type = "Bearer"
       /\ lastHttp.expires_in = 3600
  /\ lastHttp.asked.present # {"client_id", "client_secret"} =>
       lastHttp.status = 400 /\ lastHttp.error = "invalid_request"
  /\ (lastHttp.asked.present = {"client_id", "client_secret"} /\ ~CredentialsMatch) =>
       lastHttp.status = 401 /\ lastHttp.error = "invalid_client"
  /\ lastHttp.stored = IF lastHttp.status = 200 THEN 1 ELSE 0

IssuedTokens == {randomHex("tok", i) : i \in 1..tokensIssued}

----------------------------------------------------------------------------
(* Sessions of the MCP endpoint: tokens of the client_credentials grant and the *)
(* static API key, the clock, requests that open sessions and requests that     *)
(* name them, and the dispatch of what the transport was handed.                *)

SessionMessages ==
  [contentType : {"application/x-www-form-urlencoded"}, wellFormed : {TRUE},
   basic : {NoBasic},
   params : {p \in ClientCredParams : p.client_id = "cid" /\ p.client_secret = "secret"}]

\* with and without a Host header; no session, the first session's id, an id
\* the server never gave out
SessionHeaders ==
  [host : {"", "mcp.example"}, sessionId : {"", randomHex("req", 1), "req9"},
   named : BOOLEAN]

NextSessions ==
  \/ Main
  \/ \E d \in TokenClockSteps : Tick(d)
  \/ Sweep
  \/ \E r \in Req : TokenArrive(r)
  \/ \E r \in Req, m \in SessionMessages : TokenResume(r, m)
  \/ \E r \in Req, method \in {"GET", "POST"}, h \in AuthHeaders, o \in SessionHeaders :
       McpArrive(r, method, h, o)
  \/ \E r \in Req : McpCallTool(r, "docker_list_containers", "resolve")

SpecSessions == InitWith(EnvsTokens) /\ [][NextSessions]_vars

\* the request just answered carried a bearer token that was valid then: the
\* static API key, or an issued token no older than its lifetime
BearerValid ==
  /\ lastHttp.checked
  /\ \/ config.apiKey # "" /\ lastHttp.token = config.apiKey
     \/ lastHttp.issued /\ lastHttp.age \in {"within", "at"}

\* the header naming the protected-resource metadata of the host addressed
ResourceMetadataHeader ==
  IF lastHttp.host = "mcp.example"
  THEN "Bearer resource_metadata=\"https://mcp.example/.well-known/oauth-protected-resource\""
  ELSE "Bearer resource_metadata=\"https://mcp.handley.io/.well-known/oauth-protected-resource\""

\* C17: a request to the MCP endpoint, GET or POST, to open a session or naming
\* one, that carries no bearer token valid at that time is answered 401 with
\* WWW-Authenticate: Bearer resource_metadata="<base>/.well-known/oauth-protected-resource"
\* and reaches no transport: every request a transport holds, and every call
\* dispatched in HTTP mode, was authenticated; a request naming a session with
\* the token that opened it is refused once the token has expired.
C17_UnauthenticatedRefused ==
  /\ (lastHttp.kind = "mcp" /\ ~BearerValid) =>
       /\ lastHttp.status = 401
       /\ lastHttp.route = "unauthorized"
       /\ lastHttp.wwwAuthenticate = ResourceMetadataHeader
  /\ \A r \in Req : req[r].pc = "mcpBody" => req[r].authed
  /\ (phase = "http" /\ lastCall.kind # "none") => lastCall.authed
  /\ (/\ lastHttp.kind = "mcp"
      /\ lastHttp.session \in DOMAIN activeTransports
      /\ activeTransports[lastHttp.session].openedWith = lastHttp.token
      /\ lastHttp.issued
      /\ lastHttp.age = "past") => lastHttp.route = "unauthorized"

\* C17: a request naming an open session with the token that opened it has been
\* refused, the token having expired since
C17_SessionNotContinued ==
  /\ lastHttp.kind = "mcp"
  /\ lastHttp.session \in DOMAIN activeTransports
  /\ activeTransports[lastHttp.session].openedWith = lastHttp.token
  /\ lastHttp.issued
  /\ lastHttp.age = "past"
  /\ lastHttp.status = 401
  /\ lastHttp.wwwAuthenticate = ResourceMetadataHeader

----------------------------------------------------------------------------
(* validateClientCredentials on its own: the configured client or none, and   *)
(* every single-character mutation of a secret.                                *)

\* the strings with the i-th character of str replaced by ch
Substitutions(str, ch) ==
  {SubSeq(str, 1, i - 1) \o ch \o SubSeq(str, i + 1, Len(str)) : i \in 1..Len(str)} \ {str}

\* the strings with ch put in after the i-th character of str
Insertions(str, ch) ==
  {SubSeq(str, 1, i) \o ch \o SubSeq(str, i + 1, Len(str)) : i \in 0..Len(str)}

\* the strings with the i-th character of str left out
Deletions(str) ==
  {SubSeq(str, 1, i - 1) \o SubSeq(str, i + 1, Len(str)) : i \in 1..Len(str)}

Mutations(str) ==
  UNION {Substitutions(str, ch) \cup Insertions(str, ch) : ch \in {"X", LoneSurrogate}}
    \cup Deletions(str)

\* valid secrets: plain ASCII, and one holding the replacement character
ValidSecrets == {"secret", "se" \o ReplacementChar \o "ret"}

\* the configurations: no client, half a client, a client with each secret
CredConfigs == [oauthClientId : {"", "cid"}, oauthClientSecret : {""} \cup ValidSecrets]

CredInputs ==
  [fn : {"validateClientCredentials"}, config : CredConfigs,
   clientId : {"", "cid", "other"},
   clientSecret : {""} \cup ValidSecrets \cup UNION {Mutations(v) : v \in ValidSecrets},
   applied : {FALSE}, result : {FALSE}]

ApplyCredentials ==
  /\ phase = "unit"
  /\ probe.fn = "validateClientCredentials"
  /\ ~probe.applied
  /\ probe' = [probe EXCEPT
                 !.applied = TRUE,
                 !.result = validateClientCredentials(probe.clientId, probe.clientSecret,
                                                      probe.config)]
  /\ UNCHANGED serverVars

SpecCreds == UnitInit(CredInputs) /\ [][ApplyCredentials]_vars

\* validateClientCredentials has been applied
CredentialsApplied == probe.fn = "validateClientCredentials" /\ probe.applied

\* C18: validateClientCredentials answers true exactly when a client id and a
\* client secret are configured, the id is the configured id and the secret is
\* the configured secret, character for character; so it answers false for
\* every single-character mutation of a valid secret, for a wrong id with the
\* right secret, and when the id or the secret is not configured.
C18_ExactMatchOnly ==
  CredentialsApplied =>
    probe.result = (/\ probe.config.oauthClientId # ""
                    /\ probe.config.oauthClientSecret # ""
                    /\ probe.clientId = probe.config.oauthClientId
                    /\ probe.clientSecret = probe.config.oauthClientSecret)

\* C18: a secret that differs from the configured one in one character has
\* been accepted
C18_MutatedSecretAccepted ==
  /\ CredentialsApplied
  /\ probe.result
  /\ probe.clientId = probe.config.oauthClientId
  /\ probe.clientSecret \in Mutations(probe.config.oauthClientSecret)

----------------------------------------------------------------------------
(* The configured level, in SpecGate *)

\* the server is past startup and serves requests
Serving == phase \in {"http", "stdio"}

\* C19: whatever CAPABILITY_LEVEL is set to, either startup fails in
\* validateConfig or the server runs with a level that is one of 1, 2, 3, 4:
\* the level of a serving server, and the level the gate compared with in any
\* dispatch, is in 1..4.
C19_LevelInRange ==
  /\ Serving => config.capabilityLevel \in {Num(l) : l \in 1..4}
  /\ lastCall.kind # "none" => lastCall.current \in {Num(l) : l \in 1..4}

\* C19: started with CAPABILITY_LEVEL=abc, the server serves with the level NaN
\* and advertises no tool
C19_ServingWithNaNLevel ==
  /\ Serving
  /\ env.CAPABILITY_LEVEL = <<"a", "b", "c">>
  /\ config.capabilityLevel = NaN
  /\ availableTools = {}

----------------------------------------------------------------------------
(* validateAccessToken: on its own over small stores, and in the life of       *)
(* tokens of SpecTokens.                                                        *)

\* stores of up to two tokens, each expiring after one lifetime or after two
AccessStores ==
  UNION {[d -> [expiresAt : {TOKEN_EXPIRATION * 1000, 2 * TOKEN_EXPIRATION * 1000}]] :
           d \in SUBSET {randomHex("tok", 1), randomHex("tok", 2)}}

\* the clock at the call: before, at and past the first expiry, and past the second
AccessTimes == {0, TOKEN_EXPIRATION * 1000, TOKEN_EXPIRATION * 1000 + 1,
                2 * TOKEN_EXPIRATION * 1000 + 1}

AccessInputs ==
  [fn : {"validateAccessToken"}, tokens : AccessStores,
   token : {"", "key", "wrong", randomHex("tok", 1), randomHex("tok", 2)},
   apiKey : EnvApiKeys, t : AccessTimes, applied : {FALSE}, result : {FALSE},
   left : {EmptyMap}]

ApplyAccessToken ==
  /\ phase = "unit"
  /\ probe.fn = "validateAccessToken"
  /\ ~probe.applied
  /\ LET v == validateAccessToken(probe.tokens, probe.token,
                                  [NoConfig EXCEPT !.apiKey = probe.apiKey], probe.t)
     IN probe' = [probe EXCEPT !.applied = TRUE, !.result = v.ok, !.left = v.tokens]
  /\ UNCHANGED serverVars

NextAccess == NextTokens \/ ApplyAccessToken

SpecAccess == (InitWith(EnvsTokens) \/ UnitInit(AccessInputs)) /\ [][NextAccess]_vars

\* validateAccessToken has been applied on its own
AccessApplied == probe.fn = "validateAccessToken" /\ probe.applied

\* the token of the call is stored and its expiry has passed
FoundExpired ==
  /\ probe.token \in DOMAIN probe.tokens
  /\ probe.tokens[probe.token].expiresAt < probe.t

\* C20: validateAccessToken answers true exactly when the token is the
\* configured static API key, or is in the token store and not expired.  The
\* API key is accepted at every time, whatever the store holds and whether or
\* not the reaper has swept.  A call that finds the stored token expired
\* removes that token and no other and answers false; every other call leaves
\* the store as it was.
C20_AccessDecision ==
  /\ AccessApplied =>
       LET isKey == probe.apiKey # "" /\ probe.token = probe.apiKey
           evicted == IF FoundExpired /\ ~isKey THEN {probe.token} ELSE {}
       IN /\ probe.result = (isKey \/ (probe.token \in DOMAIN probe.tokens /\ ~FoundExpired))
          /\ FoundExpired /\ ~isKey => ~probe.result
          /\ DOMAIN probe.left = DOMAIN probe.tokens \ evicted
          /\ \A k \in DOMAIN probe.left : probe.left[k] = probe.tokens[k]
  /\ (lastHttp.kind = "mcp" /\ lastHttp.checked) =>
       /\ lastHttp.ok = (\/ config.apiKey # "" /\ lastHttp.token = config.apiKey
                         \/ lastHttp.inStore /\ lastHttp.age \in {"within", "at"})
       /\ (config.apiKey # "" /\ lastHttp.token = config.apiKey) => lastHttp.status = 200

\* C20: of two stored tokens that have both expired, the one presented has been
\* removed and refused and the other is still stored
C20_OnlyThatTokenEvicted ==
  /\ AccessApplied
  /\ FoundExpired
  /\ ~probe.result
  /\ \E k \in DOMAIN probe.left : k # probe.token /\ probe.tokens[k].expiresAt < probe.t
  /\ probe.token \notin DOMAIN probe.left

----------------------------------------------------------------------------
(* validateAuthorizationCode on its own: a store of one code or none, and      *)
(* every mix of right and wrong arguments at each side of the expiry.          *)

\* stores holding no code, or the first code, created at time 0 for client cid
ReasonStores ==
  {EmptyMap}
  \cup {MapPut(EmptyMap, randomHex("code", 1),
                [codeChallenge |-> ch, codeChallengeMethod |-> m, clientId |-> "cid",
                 redirectUri |-> "https://app/cb",
                 expiresAt |-> AUTH_CODE_EXPIRATION * 1000]) :
           ch \in {S256("abc123"), "abc123"}, m \in {"S256", "plain", "S512"}}

ReasonInputs ==
  [fn : {"validateAuthorizationCode"}, codes : ReasonStores,
   code : {randomHex("code", 1), randomHex("code", 2)},
   clientId : {"cid", "other"}, redirectUri : {"https://app/cb", "https://evil/cb"},
   codeVerifier : {"abc123", "xyz789"},
   t : {0, AUTH_CODE_EXPIRATION * 1000, AUTH_CODE_EXPIRATION * 1000 + 1},
   applied : {FALSE}, valid : {FALSE}, error : {""}, left : {EmptyMap}]

ApplyValidateCode ==
  /\ phase = "unit"
  /\ probe.fn = "validateAuthorizationCode"
  /\ ~probe.applied
  /\ LET v == validateAuthorizationCode(probe.codes, probe.code, probe.clientId,
                                        probe.redirectUri, probe.codeVerifier, probe.t)
     IN probe' = [probe EXCEPT !.applied = TRUE, !.valid = v.valid, !.error = v.error,
                               !.left = v.codes]
  /\ UNCHANGED serverVars

SpecReasons == UnitInit(ReasonInputs) /\ [][ApplyValidateCode]_vars

\* validateAuthorizationCode has been applied
CodeApplied == probe.fn = "validateAuthorizationCode" /\ probe.applied

\* the checks a redemption fails, by name
FailedChecks ==
  IF probe.code \notin DOMAIN probe.codes THEN {"unknown"}
  ELSE LET d == probe.codes[probe.code]
       IN (IF d.expiresAt < probe.t THEN {"expired"} ELSE {})
          \cup (IF d.clientId # probe.clientId THEN {"client"} ELSE {})
          \cup (IF d.redirectUri # probe.redirectUri THEN {"redirect"} ELSE {})
          \cup (IF \/ d.codeChallengeMethod = "S256"
                      /\ S256(probe.codeVerifier) = d.codeChallenge
                   \/ d.codeChallengeMethod = "plain"
                      /\ probe.codeVerifier = d.codeChallenge
                THEN {} ELSE {"verifier"})

\* the fixed order of the checks, and the reason each one gives
CheckOrder == <<"unknown", "expired", "client", "redirect", "verifier">>

ReasonOf(check) ==
  CASE check = "unknown" -> "Invalid authorization code"
    [] check = "expired" -> "Authorization code expired"
    [] check = "client" -> "Client ID mismatch"
    [] check = "redirect" -> "Redirect URI mismatch"
    [] check = "verifier" -> "Invalid code verifier"

\* C21: validateAuthorizationCode succeeds exactly when no check fails, and
\* when several fail it returns the reason of the one that comes first in the
\* order unknown code, expired, client mismatch, redirect mismatch, invalid
\* verifier.
C21_FirstFailingCheck ==
  CodeApplied =>
    /\ probe.valid = (FailedChecks = {})
    /\ FailedChecks # {} =>
         LET first == CHOOSE i \in 1..5 :
                        /\ CheckOrder[i] \in FailedChecks
                        /\ \A j \in 1..(i - 1) : CheckOrder[j] \notin FailedChecks
         IN probe.error = ReasonOf(CheckOrder[first])

\* C21: an expired code presented for another client, with another redirect
\* URI and a wrong verifier has been refused as expired
C21_ExpiredBeforeMismatch ==
  /\ CodeApplied
  /\ FailedChecks = {"expired", "client", "redirect", "verifier"}
  /\ probe.error = "Authorization code expired"

----------------------------------------------------------------------------
(* The reaper: its callback on its own over small stores, and its sweeps in    *)
(* the life of codes and tokens.                                               *)

\* stores of up to two codes, each expiring after a code's or a token's lifetime
ReaperCodeStores ==
  UNION {[d -> [codeChallenge : {"abc123"}, codeChallengeMethod : {"plain"},
                clientId : {"cid"}, redirectUri : {"https://app/cb"},
                expiresAt : {AUTH_CODE_EXPIRATION * 1000, TOKEN_EXPIRATION * 1000}]] :
           d \in SUBSET {randomHex("code", 1), randomHex("code", 2)}}

\* the clock at a sweep: before, at and past each expiry of the stores
ReaperTimes == {0, AUTH_CODE_EXPIRATION * 1000, AUTH_CODE_EXPIRATION * 1000 + 1,
                2 * TOKEN_EXPIRATION * 1000}
                 \cup (AccessTimes \ {0})

ReaperInputs ==
  [fn : {"cleanup"}, tokens : AccessStores, codes : ReaperCodeStores, t : ReaperTimes,
   applied : {FALSE}, leftTokens : {EmptyMap}, leftCodes : {EmptyMap}]

\* the setInterval callback: one reading of the clock, then both stores
ApplyCleanup ==
  /\ phase = "unit"
  /\ probe.fn = "cleanup"
  /\ ~probe.applied
  /\ probe' = [probe EXCEPT !.applied = TRUE,
                            !.leftTokens = cleanup(probe.tokens, probe.t),
                            !.leftCodes = cleanup(probe.codes, probe.t)]
  /\ UNCHANGED serverVars

NextReaper ==
  \/ Main
  \/ \E d \in ClockSteps : Tick(d)
  \/ Sweep
  \/ \E q \in AuthorizeQueries : Authorize(q)
  \/ \E r \in Req : TokenArrive(r)
  \/ \E r \in Req, m \in IssuingMessages : TokenResume(r, m)
  \/ ApplyCleanup

SpecReaper == (InitWith(EnvsTokens) \/ UnitInit(ReaperInputs)) /\ [][NextReaper]_vars

\* of the store before, the store after lacks the entries whose expiresAt had
\* passed at time t, and no other
SweptExactly(before, after, t) ==
  /\ DOMAIN after \subseteq DOMAIN before
  /\ \A k \in DOMAIN after : after[k] = before[k] /\ after[k].expiresAt >= t
  /\ \A k \in DOMAIN before \ DOMAIN after : before[k].expiresAt < t

\* the callback has been applied on its own
CleanupApplied == probe.fn = "cleanup" /\ probe.applied

\* C22: a sweep removes from the token store and from the code store every
\* entry whose expiresAt has passed, and nothing else: applied to any pair of
\* stores, and at every sweep of the running server, the stores after the
\* sweep hold the unexpired entries of the stores before it, unchanged.
C22_SweepDeletesExpiredOnly ==
  /\ [](CleanupApplied =>
          /\ SweptExactly(probe.tokens, probe.leftTokens, probe.t)
          /\ SweptExactly(probe.codes, probe.leftCodes, probe.t))
  /\ [][Sweep =>
          /\ SweptExactly(activeTokens, activeTokens', now)
          /\ SweptExactly(authorizationCodes, authorizationCodes', now)]_vars

\* C22: a sweep has removed an expired token and an expired code, and has kept
\* a token and a code that expire at this very millisecond
C22_SweptAndKept ==
  /\ CleanupApplied
  /\ \E k \in DOMAIN probe.tokens \ DOMAIN probe.leftTokens : TRUE
  /\ \E k \in DOMAIN probe.codes \ DOMAIN probe.leftCodes : TRUE
  /\ \E k \in DOMAIN probe.leftTokens : probe.leftTokens[k].expiresAt = probe.t

----------------------------------------------------------------------------
(* The reaper's timer.  The clock is followed from interval to interval: the   *)
(* clients make their requests in the first intervals, at the instant of a     *)
(* sweep or a millisecond later, and abandon what they were given; the timer   *)
(* goes on firing.  Once the clients are silent and the stores are empty, a    *)
(* firing changes nothing but the clock and is left out.                       *)

\* the period of the setInterval callback, in milliseconds
SWEEP_INTERVAL == 60000

\* the clients are still making requests
Busy == now < MaxBusyIntervals * SWEEP_INTERVAL

\* the timer fires: the clock reaches the next multiple of the period and the
\* callback sweeps both stores
ReaperFires ==
  /\ phase = "http"
  /\ Busy \/ activeTokens # EmptyMap \/ authorizationCodes # EmptyMap
  /\ LET t == ((now \div SWEEP_INTERVAL) + 1) * SWEEP_INTERVAL
     IN /\ now' = t
        /\ activeTokens' = cleanup(activeTokens, t)
        /\ authorizationCodes' = cleanup(authorizationCodes, t)
  /\ UNCHANGED <<bootVars, ticks, codesCreated, tokensIssued, codeHist, tokenHist,
                 lastHttp, req, callVars, probe, activeTransports>>

\* a millisecond passes after a sweep
Moment ==
  /\ phase = "http"
  /\ Busy
  /\ now % SWEEP_INTERVAL = 0
  /\ now' = now + 1
  /\ UNCHANGED <<bootVars, ticks, oauthVars, req, callVars, probe, activeTransports>>

\* the complete queries of the configured client
LiveQueries ==
  {q \in AuthorizeQueries :
     /\ q.response_type = "code" /\ q.client_id = "cid"
     /\ q.redirect_uri = "https://app/cb" /\ q.verifier = "abc123"
     /\ q.code_challenge_method = "S256"}

\* the token requests of a client that redeems its code, or asks with its credentials
LiveMessages ==
  {m \in IssuingMessages :
     /\ m.params.code_verifier \in {"", "abc123"}
     /\ m.params.client_secret \in {"", "secret"}}

NextLive ==
  \/ Main
  \/ ReaperFires
  \/ Moment
  \/ Busy /\ \E q \in LiveQueries : Authorize(q)
  \/ Busy /\ TokenArrive(1)
  \/ Busy /\ \E m \in LiveMessages : TokenResume(1, m)

\* the timer is never starved
SpecLive == InitWith(EnvsCodes) /\ [][NextLive]_vars /\ WF_vars(ReaperFires)

\* every code and token the bounds allow
LiveCodes == {randomHex("code", i) : i \in 1..MaxCodes}
LiveTokens == {randomHex("tok", i) : i \in 1..(MaxCodes + MaxTokens)}

\* C23: every code and every token leaves its store in the end, whether or not
\* a client presents it again, when the reaper's timer keeps firing; a code is
\* stored for less than its 600 s plus one sweep interval after its creation
\* and a token for less than its 3600 s plus one sweep interval after its
\* issuance.
C23_AbandonedEntriesRemoved ==
  /\ [](\A c \in DOMAIN authorizationCodes :
          now < codeHist[c].createdAt + AUTH_CODE_EXPIRATION * 1000 + SWEEP_INTERVAL)
  /\ [](\A t \in DOMAIN activeTokens :
          now < tokenHist[t].issuedAt + TOKEN_EXPIRATION * 1000 + SWEEP_INTERVAL)
  /\ \A c \in LiveCodes :
       (c \in DOMAIN authorizationCodes) ~> (c \notin DOMAIN authorizationCodes)
  /\ \A t \in LiveTokens :
       (t \in DOMAIN activeTokens) ~> (t \notin DOMAIN activeTokens)

\* C23: a code nobody presented has just been swept, one lifetime and one whole
\* interval after its creation, and so has a token nobody presented
C23_AbandonedSwept ==
  \/ \E c \in DOMAIN codeHist :
       /\ codeHist[c].attempts = 0
       /\ c \notin DOMAIN authorizationCodes
       /\ now = codeHist[c].createdAt + AUTH_CODE_EXPIRATION * 1000 + SWEEP_INTERVAL
       /\ activeTokens # EmptyMap

----------------------------------------------------------------------------
(* Two runs of oauth.ts fed the same calls at the same clock readings: the     *)
(* plain run has no reaper, the swept run has sweeps anywhere between calls.   *)

\* what Date.now() returns, at a call or at a sweep: any of these, in any order
ClockReadings == {0, AUTH_CODE_EXPIRATION * 1000, AUTH_CODE_EXPIRATION * 1000 + 1,
                  TOKEN_EXPIRATION * 1000, TOKEN_EXPIRATION * 1000 + 1}

NoOutcome == [ok |-> TRUE, error |-> ""]

\* both runs before the first call
RunsInputs ==
  {[fn |-> "runs",
    plain |-> [tokens |-> EmptyMap, codes |-> EmptyMap],
    swept |-> [tokens |-> EmptyMap, codes |-> EmptyMap],
    codesCreated |-> 0, tokensIssued |-> 0,
    last |-> 0, monotone |-> TRUE, sweeps |-> FALSE,
    call |-> "none", plainOutcome |-> NoOutcome, sweptOutcome |-> NoOutcome,
    same |-> TRUE]}

\* the clock is read as t: whether the readings so far never went back
Reading(t) == [probe EXCEPT !.last = t, !.monotone = @ /\ t >= probe.last]

\* both runs have made a call, with these outcomes and these stores left
Called(t, call, plain, swept, plainOutcome, sweptOutcome) ==
  [Reading(t) EXCEPT !.plain = plain, !.swept = swept, !.call = call,
                     !.plainOutcome = plainOutcome, !.sweptOutcome = sweptOutcome,
                     !.same = @ /\ plainOutcome.ok = sweptOutcome.ok]

Running == phase = "unit" /\ probe.fn = "runs"

RunsCreateCode(t) ==
  /\ Running
  /\ probe.codesCreated < MaxCodes
  /\ LET n == probe.codesCreated + 1
         a == createAuthorizationCode(probe.plain.codes, n, "cid", "https://app/cb",
                                      S256("abc123"), "S256", t)
         b == createAuthorizationCode(probe.swept.codes, n, "cid", "https://app/cb",
                                      S256("abc123"), "S256", t)
     IN probe' = [Called(t, "createAuthorizationCode",
                         [probe.plain EXCEPT !.codes = a.codes],
                         [probe.swept EXCEPT !.codes = b.codes], NoOutcome, NoOutcome)
                    EXCEPT !.codesCreated = n]
  /\ UNCHANGED serverVars

RunsValidateCode(code, codeVerifier, t) ==
  /\ Running
  /\ LET a == validateAuthorizationCode(probe.plain.codes, code, "cid", "https://app/cb",
                                        codeVerifier, t)
         b == validateAuthorizationCode(probe.swept.codes, code, "cid", "https://app/cb",
                                        codeVerifier, t)
     IN probe' = Called(t, "validateAuthorizationCode",
                        [probe.plain EXCEPT !.codes = a.codes],
                        [probe.swept EXCEPT !.codes = b.codes],
                        [ok |-> a.valid, error |-> a.error],
                        [ok |-> b.valid, error |-> b.error])
  /\ UNCHANGED serverVars

RunsIssueToken(t) ==
  /\ Running
  /\ probe.tokensIssued < MaxTokens
  /\ LET n == probe.tokensIssued + 1
         a == issueToken(probe.plain.tokens, n, t)
         b == issueToken(probe.swept.tokens, n, t)
     IN probe' = [Called(t, "issueToken",
                         [probe.plain EXCEPT !.tokens = a.tokens],
                         [probe.swept EXCEPT !.tokens = b.tokens], NoOutcome, NoOutcome)
                    EXCEPT !.tokensIssued = n]
  /\ UNCHANGED serverVars

RunsValidateToken(token, t) ==
  /\ Running
  /\ LET a == validateAccessToken(probe.plain.tokens, token, NoConfig, t)
         b == validateAccessToken(probe.swept.tokens, token, NoConfig, t)
     IN probe' = Called(t, "validateAccessToken",
                        [probe.plain EXCEPT !.tokens = a.tokens],
                        [probe.swept EXCEPT !.tokens = b.tokens],
                        [ok |-> a.ok, error |-> ""], [ok |-> b.ok, error |-> ""])
  /\ UNCHANGED serverVars

\* the reaper fires in the swept run only
RunsSweep(t) ==
  /\ Running
  /\ probe' = [Reading(t) EXCEPT !.swept = [tokens |-> cleanup(probe.swept.tokens, t),
                                             codes |-> cleanup(probe.swept.codes, t)],
                                 !.sweeps = TRUE]
  /\ UNCHANGED serverVars

NextRuns ==
  \/ \E t \in ClockReadings : RunsCreateCode(t)
  \/ \E c \in LiveCodes, v \in {"abc123", "xyz789"}, t \in ClockReadings :
       RunsValidateCode(c, v, t)
  \/ \E t \in ClockReadings : RunsIssueToken(t)
  \/ \E k \in {randomHex("tok", i) : i \in 1..MaxTokens}, t \in ClockReadings :
       RunsValidateToken(k, t)
  \/ \E t \in ClockReadings : RunsSweep(t)

SpecRuns == UnitInit(RunsInputs) /\ [][NextRuns]_vars

\* the two runs gave the latest call the same reason, or one found the code
\* expired where the other did not find it
SameReason ==
  \/ probe.plainOutcome.error = probe.sweptOutcome.error
  \/ /\ probe.plainOutcome.error = "Authorization code expired"
     /\ probe.sweptOutcome.error = "Invalid authorization code"

\* C24 as stated: whatever the clock readings, every call succeeds in the run
\* with sweeps exactly when it succeeds in the run without, and gives the same
\* reason, or 'invalid code' for 'expired'.
C24_SweepsUnobservable == Running => (probe.same /\ SameReason)

\* C24: the same when the clock readings never go back, those of the sweeps
\* included.
C24_SweepsUnobservableMonotone ==
  (Running /\ probe.monotone) => (probe.same /\ SameReason)

\* C24: with a clock that never went back, a sweep has removed the expired code
\* and its redemption has then failed in both runs, as expired in the one and
\* as an invalid code in the other
C24_ExpiredOrInvalid ==
  /\ Running
  /\ probe.monotone
  /\ probe.sweeps
  /\ probe.call = "validateAuthorizationCode"
  /\ probe.plainOutcome.error = "Authorization code expired"
  /\ probe.sweptOutcome.error = "Invalid authorization code"

----------------------------------------------------------------------------
(* Dispatches and their history: a level in range and the level NaN, calls     *)
(* under the API key and under an issued token, in sessions opened for the     *)
(* call and in a session opened before, after calls that were refused, that    *)
(* failed and that succeeded.                                                  *)

EnvsHistory == {e \in Envs : /\ e.CAPABILITY_LEVEL \in {<<"2">>, <<"a", "b", "c">>}
                             /\ e.PORT # <<>>
                             /\ e.MCP_TRANSPORT = ""
                             /\ e.API_KEY # ""
                             /\ e.OAUTH_CLIENT_ID # ""
                             /\ e.OAUTH_CLIENT_SECRET # ""}

HistoryHeaders == [host : {""}, sessionId : {"", randomHex("req", 1)}, named : BOOLEAN]

NextHistory ==
  \/ Main
  \/ \E r \in Req : TokenArrive(r)
  \/ \E r \in Req, m \in SessionMessages : TokenResume(r, m)
  \/ \E r \in Req, h \in AuthHeaders, o \in HistoryHeaders : McpArrive(r, "POST", h, o)
  \/ \E r \in Req, n \in RequestedNames, o \in HandlerOutcomes : McpCallTool(r, n, o)

SpecHistory == InitWith(EnvsHistory) /\ [][NextHistory]_vars

\* the gate's decision on an operation under a level
Decision(name, level) ==
  IF \A t \in ALL_TOOLS : t.name # name THEN "MethodNotFound"
  ELSE IF \E t \in ALL_TOOLS : t.name = name /\ JsGt(Num(t.level), level) THEN "denied"
  ELSE "invoked"

\* the decision the latest dispatch took
Decided ==
  IF lastCall.kind = "MethodNotFound" THEN "MethodNotFound"
  ELSE IF lastCall.kind = "InvalidRequest" /\ ~lastCall.invoked THEN "denied"
  ELSE IF lastCall.invoked THEN "invoked"
  ELSE "other"

\* C25: once the server serves, its configuration, the level with it, never
\* changes; and the decision of every dispatch, MethodNotFound, denied or
\* handler invoked, is the value of one function of the operation's name and
\* that level, whatever was dispatched, denied or failed before, whichever
\* session carries the call and whichever credential authenticated it.
C25_DecisionByNameAndLevel ==
  /\ [](Serving => config = loadConfig(env))
  /\ [][Serving => config' = config]_vars
  /\ [](lastCall.kind # "none" =>
          /\ lastCall.current = config.capabilityLevel
          /\ Decided = Decision(lastCall.name, config.capabilityLevel))

\* C25: the level-4 operation has been denied to a call that came second, under
\* an issued token, while a session was open and after a handler was invoked
C25_DeniedAfterHistory ==
  /\ dispatches = 2
  /\ Decided = "denied"
  /\ lastCall.name = "docker_exec"
  /\ \E n \in ToolNames : callCount[n] > 0
  /\ activeTransports # EmptyMap
  /\ tokensIssued > 0

----------------------------------------------------------------------------
(* docker_exec: the handler, execInContainer and the dispatcher's envelope.    *)
(* The timer, the start callback, the end of the output stream and the answer  *)
(* of exec.inspect come in every order the event loop allows.                  *)

\* the timeout argument of a call: absent (Null), or a number of seconds
ExecTimeouts == {Null} \cup {Num(n) : n \in {0, 10, 30, 45, 60, 90}}

\* Math.min(args.timeout ?? 30, 60)
execTimeout(requested) ==
  LET given == IF requested = Null THEN Num(30) ELSE requested
  IN IF JsLt(given, Num(60)) THEN given ELSE Num(60)

ExecInputs ==
  [fn : {"execInContainer"}, requested : ExecTimeouts, timeout : {Null},
   pc : {"dispatched"}, timer : {"unset"}, promise : {"pending"}, reason : {""},
   settled : {0}, command : {"notStarted"}, envelope : {"none"}]

Exec == phase = "unit" /\ probe.fn = "execInContainer"

\* resolve or reject: only the first call settles the promise
settle(p, promise, reason) ==
  IF p.promise = "pending"
  THEN [p EXCEPT !.promise = promise, !.reason = reason, !.settled = @ + 1]
  ELSE p

\* clearTimeout: a timer that has fired stays fired
clearTimeout(p) == IF p.timer = "armed" THEN [p EXCEPT !.timer = "cleared"] ELSE p

\* the handler computes the timeout; execInContainer creates the exec, arms the
\* timer and calls exec.start
ExecCall ==
  /\ Exec
  /\ probe.pc = "dispatched"
  /\ probe' = [probe EXCEPT !.timeout = execTimeout(probe.requested),
                            !.timer = "armed", !.pc = "starting"]
  /\ UNCHANGED serverVars

\* the callback of exec.start, with an error or with the stream
ExecStarted(err) ==
  /\ Exec
  /\ probe.pc = "starting"
  /\ probe' = IF err
              THEN [settle(clearTimeout(probe), "rejected", "startError")
                      EXCEPT !.pc = "ended"]
              ELSE [probe EXCEPT !.pc = "streaming", !.command = "running"]
  /\ UNCHANGED serverVars

\* the timer fires: reject(new Error('Command timed out ...')), and nothing else
ExecTimerFires ==
  /\ Exec
  /\ probe.timer = "armed"
  /\ probe' = [settle(probe, "rejected", "timeout") EXCEPT !.timer = "fired"]
  /\ UNCHANGED serverVars

\* the command exits and its stream ends: clearTimeout, then the await on exec.inspect
ExecStreamEnds ==
  /\ Exec
  /\ probe.pc = "streaming"
  /\ probe' = [clearTimeout(probe) EXCEPT !.pc = "inspecting", !.command = "exited"]
  /\ UNCHANGED serverVars

\* exec.inspect answers and the result is resolved, or it fails and the end
\* listener's own promise is rejected with nobody to handle it
ExecInspected(ok) ==
  /\ Exec
  /\ probe.pc = "inspecting"
  /\ probe' = IF ok THEN [settle(probe, "resolved", "") EXCEPT !.pc = "ended"]
              ELSE [probe EXCEPT !.pc = "ended"]
  /\ UNCHANGED serverVars

\* the dispatcher's await returns or throws: the result, or the isError envelope
ExecEnvelope ==
  /\ Exec
  /\ probe.promise # "pending"
  /\ probe.envelope = "none"
  /\ probe' = [probe EXCEPT !.envelope = IF probe.promise = "resolved" THEN "result"
                                         ELSE "isError"]
  /\ UNCHANGED serverVars

NextExec ==
  \/ ExecCall
  \/ \E err \in BOOLEAN : ExecStarted(err)
  \/ ExecTimerFires
  \/ ExecStreamEnds
  \/ \E ok \in BOOLEAN : ExecInspected(ok)
  \/ ExecEnvelope

SpecExec == UnitInit(ExecInputs) /\ [][NextExec]_vars

\* nothing more can happen to the call
ExecQuiet == probe.pc = "ended" /\ probe.timer # "armed"

\* C26: a docker_exec dispatch whose exec was started settles once and no more:
\* resolved with the result when the stream ended before the timer fired,
\* rejected by the timer otherwise and then reported as an isError envelope;
\* the timeout is the requested one, or 30 when none is given, and at most 60;
\* when the timer has rejected the call the command no longer runs; and a call
\* to which nothing more can happen has settled.
C26_ExecSettlesOnce ==
  (Exec /\ probe.pc # "dispatched") =>
    /\ probe.settled <= 1
    /\ probe.timeout = (IF probe.requested = Null THEN Num(30)
                        ELSE IF probe.requested \in {Num(n) : n \in 0..60}
                        THEN probe.requested ELSE Num(60))
    /\ probe.promise = "resolved" => (probe.command = "exited" /\ probe.timer = "cleared")
    /\ probe.envelope = "isError" => probe.promise = "rejected"
    /\ probe.envelope = "result" => probe.promise = "resolved"
    /\ (probe.promise = "rejected" /\ probe.reason = "timeout") => probe.command # "running"
    /\ (ExecQuiet /\ probe.command # "notStarted") => probe.promise # "pending"

\* C26: the dispatch has been answered with the timeout's isError envelope and
\* the command is still running in the container
C26_TimedOutStillRunning ==
  /\ Exec
  /\ probe.reason = "timeout"
  /\ probe.envelope = "isError"
  /\ probe.command = "running"

\* C26: the stream ended in time, exec.inspect failed, and the dispatch is left
\* without an answer
C26_NeverSettled ==
  /\ Exec
  /\ ExecQuiet
  /\ probe.command = "exited"
  /\ probe.promise = "pending"

----------------------------------------------------------------------------
(* OAuth switched off: the API key with no client, with half a client, and,    *)
(* for comparison, with a whole one.  Every endpoint is addressed.             *)

EnvsOAuth == {e \in Envs : /\ e.CAPABILITY_LEVEL = <<>>
                           /\ e.PORT # <<>>
                           /\ e.MCP_TRANSPORT = ""
                           /\ e.API_KEY # ""}

\* registration bodies: JSON or not
RegisterBodies == [parsable : BOOLEAN]

\* POST /oauth/register: 400 without OAuth, else the configured client's
\* credentials, or 400 when the body is not JSON; no store is touched
Register(body) ==
  /\ UNCHANGED <<probe, activeTransports>>
  /\ phase = "http"
  /\ lastHttp' = IF ~hasOAuth(config)
                 THEN [kind |-> "register", status |-> 400, error |-> "invalid_request",
                       desc |-> "OAuth not configured", client_id |-> "",
                       client_secret |-> ""]
                 ELSE IF ~body.parsable
                 THEN [kind |-> "register", status |-> 400, error |-> "invalid_request",
                       desc |-> "", client_id |-> "", client_secret |-> ""]
                 ELSE [kind |-> "register", status |-> 201, error |-> "", desc |-> "",
                       client_id |-> config.oauthClientId,
                       client_secret |-> config.oauthClientSecret]
  /\ UNCHANGED <<bootVars, clockVars, activeTokens, authorizationCodes, codesCreated,
                 tokensIssued, codeHist, tokenHist, req, callVars>>

NextOAuth ==
  \/ Main
  \/ \E body \in RegisterBodies : Register(body)
  \/ \E q \in AuthorizeQueries : Authorize(q)
  \/ \E r \in Req : TokenArrive(r)
  \/ \E r \in Req, m \in IssuingMessages : TokenResume(r, m)
  \/ \E r \in Req, method \in {"GET", "POST"}, h \in AuthHeaders :
       McpArrive(r, method, h, PlainHeaders)
  \/ \E r \in Req : McpCallTool(r, "docker_list_containers", "resolve")

SpecOAuth == InitWith(EnvsOAuth) /\ [][NextOAuth]_vars

\* the server serves HTTP and lacks the client id, the client secret, or both
OAuthOff == phase = "http" /\ (config.oauthClientId = "" \/ config.oauthClientSecret = "")

\* C27: while the client id and the client secret are not both configured,
\* POST /oauth/register, GET /authorize and POST /oauth/token answer 400 whatever
\* they carry, no authorization code and no access token is ever created, and
\* the MCP endpoint authenticates a request exactly when its bearer token is
\* the static API key.
C27_NoOAuthWithoutBoth ==
  OAuthOff =>
    /\ authorizationCodes = EmptyMap
    /\ activeTokens = EmptyMap
    /\ codesCreated = 0
    /\ tokensIssued = 0
    /\ lastHttp.kind \in {"register", "authorize", "token"} => lastHttp.status = 400
    /\ lastHttp.kind = "mcp" =>
         (lastHttp.ok <=> (lastHttp.checked /\ env.API_KEY # "" /\ lastHttp.token = env.API_KEY))

\* C27: a client id is configured without a secret, and a client_credentials
\* request naming that client has been refused
C27_HalfClientRefused ==
  /\ OAuthOff
  /\ config.oauthClientId = "cid"
  /\ lastHttp.kind = "token"
  /\ lastHttp.asked.grant = "client_credentials"
  /\ lastHttp.asked.client_id = "cid"
  /\ lastHttp.status = 400

----------------------------------------------------------------------------
(* The list of tools against the gate, in SpecGate *)

\* the tools a call_tool dispatch lets through to their handlers
GatedTools == {t \in ALL_TOOLS : callTool(t.name, config.capabilityLevel, "resolve").invoked}

\* C28: for every level the server can be serving with, the value a non-numeric
\* CAPABILITY_LEVEL gives included, the tools that tools/list answers are
\* exactly the tools whose dispatch passes the level check, and no handler of a
\* tool outside the list has been invoked.
C28_ListedIffGated ==
  Serving =>
    /\ availableTools = GatedTools
    /\ lastCall.invoked => lastCall.name \in {t.name : t \in availableTools}
    /\ \A t \in ALL_TOOLS : callCount[t.name] > 0 => t \in availableTools

\* C28: with CAPABILITY_LEVEL=abc tools/list answers no tool, and the handler
\* of docker_restart_container has run
C28_UnlistedInvoked ==
  /\ Serving
  /\ config.capabilityLevel = NaN
  /\ availableTools = {}
  /\ lastCall.invoked
  /\ lastCall.name = "docker_restart_container"
  /\ callCount["docker_restart_container"] > 0

----------------------------------------------------------------------------
(* A server without a static API key: validateAccessToken on its own with no  *)
(* key configured, and the MCP endpoint of a server that has OAuth alone.      *)

NoKeyInputs == {i \in AccessInputs : i.apiKey = ""}

NextNoKey ==
  \/ Main
  \/ \E d \in TokenClockSteps : Tick(d)
  \/ Sweep
  \/ \E r \in Req : TokenArrive(r)
  \/ \E r \in Req, m \in SessionMessages : TokenResume(r, m)
  \/ \E r \in Req, method \in {"GET", "POST"}, h \in AuthHeaders :
       McpArrive(r, method, h, PlainHeaders)
  \/ \E r \in Req : McpCallTool(r, "docker_list_containers", "resolve")
  \/ ApplyAccessToken

SpecNoKey == (InitWith(EnvsCodes) \/ UnitInit(NoKeyInputs)) /\ [][NextNoKey]_vars

\* C29: with apiKey the empty string, validateAccessToken answers true exactly
\* for a token that is in the token store and not expired, so for no bearer
\* value as an API key: the empty token is refused like any other, and the MCP
\* endpoint of such a server authenticates issued, unexpired tokens only.
C29_NoKeyNoStaticBearer ==
  /\ (AccessApplied /\ probe.apiKey = "") =>
       /\ probe.result = (probe.token \in DOMAIN probe.tokens /\ ~FoundExpired)
       /\ probe.token = "" => ~probe.result
  /\ (phase = "http" /\ config.apiKey = "" /\ lastHttp.kind = "mcp") =>
       /\ lastHttp.ok => (lastHttp.issued /\ lastHttp.inStore
                           /\ lastHttp.age \in {"within", "at"})
       /\ (lastHttp.checked /\ lastHttp.token = "") => lastHttp.status = 401

\* C29: a server without an API key has refused a request whose bearer token
\* is empty
C29_EmptyBearerRefused ==
  /\ phase = "http"
  /\ config.apiKey = ""
  /\ lastHttp.kind = "mcp"
  /\ lastHttp.checked
  /\ lastHttp.token = ""
  /\ lastHttp.status = 401

----------------------------------------------------------------------------
(* Token requests that end before redemption: the grants of the token endpoint *)
(* on a running server, and the grant handling on its own, applied three times *)
(* to a store of one code: a request that ends early, then the complete and    *)
(* correct redemption, then the same redemption again.                         *)

\* the store after /authorize created the first code for client cid at time 0
FrameStore ==
  createAuthorizationCode(EmptyMap, 1, "cid", "https://app/cb", S256("abc123"), "S256", 0).codes

\* requests naming the first code that the endpoint answers without redeeming:
\* a redemption lacking its verifier, redirect URI or client id, the
\* client_credentials grant, and grants the endpoint does not know
EarlyRequests ==
  {p \in [grant_type : {"authorization_code"}, client_id : {"", "cid"},
          client_secret : {""}, code : {randomHex("code", 1)},
          code_verifier : {"", "abc123"}, redirect_uri : {"", "https://app/cb"}] :
     p.client_id = "" \/ p.code_verifier = "" \/ p.redirect_uri = ""}
  \cup
  [grant_type : {"client_credentials"}, client_id : {"", "cid", "other"},
   client_secret : {"", "secret", "secreT"}, code : {randomHex("code", 1)},
   code_verifier : {"abc123"}, redirect_uri : {"https://app/cb"}]
  \cup
  [grant_type : {"", "password"}, client_id : {"cid"}, client_secret : {"secret"},
   code : {randomHex("code", 1)}, code_verifier : {"abc123"},
   redirect_uri : {"https://app/cb"}]

\* the complete and correct redemption of the first code
CompleteRequest ==
  [grant_type |-> "authorization_code", client_id |-> "cid", client_secret |-> "",
   code |-> randomHex("code", 1), code_verifier |-> "abc123",
   redirect_uri |-> "https://app/cb"]

FrameInputs ==
  [fn : {"tokenGrant"}, early : EarlyRequests, step : {0}, codes : {FrameStore},
   tokens : {EmptyMap}, issued : {0}, statuses : {<<>>}, afterEarly : {EmptyMap}]

\* the next of the three requests is handled
ApplyGrant ==
  /\ phase = "unit"
  /\ probe.fn = "tokenGrant"
  /\ probe.step < 3
  /\ LET p == IF probe.step = 0 THEN probe.early ELSE CompleteRequest
         out == tokenGrant(p.grant_type, p.code, p.code_verifier, p.redirect_uri,
                           p.client_id, p.client_secret, probe.codes, probe.tokens,
                           probe.issued + 1,
                           [NoConfig EXCEPT !.oauthClientId = "cid",
                                            !.oauthClientSecret = "secret"], 0)
     IN probe' = [probe EXCEPT !.step = @ + 1, !.codes = out.codes,
                               !.tokens = out.tokens,
                               !.issued = IF out.issued THEN @ + 1 ELSE @,
                               !.statuses = Append(@, out.status),
                               !.afterEarly = IF probe.step = 0 THEN out.codes ELSE @]
  /\ UNCHANGED serverVars

NextFrame == NextGrants \/ ApplyGrant

SpecFrame == (InitWith(EnvsGrants) \/ UnitInit(FrameInputs)) /\ [][NextFrame]_vars

\* a token request has just been answered after its body arrived
TokenResumed == \E r \in Req : req[r].pc = "tokenBody" /\ req'[r].pc = "idle"

\* what was asked ends before redemption: a redemption naming a code and lacking
\* another parameter, a client_credentials request, or an unknown grant
EarlyAsk(a) ==
  /\ a.decodable
  /\ \/ /\ a.grant = "authorization_code"
        /\ "code" \in a.present
        /\ a.present # {"code", "code_verifier", "redirect_uri", "client_id"}
     \/ a.grant = "client_credentials"
     \/ a.grant \notin {"authorization_code", "client_credentials"}

\* C30: a token request that ends before redemption (a redemption lacking its
\* code_verifier, redirect_uri or client_id, a client_credentials request, a
\* grant type the endpoint does not support) leaves the authorization-code
\* store as it was; the code it names is still there, the next complete and
\* correct request redeems it, and the one after that is refused.
C30_EarlyRejectionKeepsCode ==
  /\ [](probe.fn = "tokenGrant" =>
         /\ probe.step >= 1 => probe.afterEarly = FrameStore
         /\ probe.step >= 2 => (probe.statuses[2] = 200 /\ probe.codes = EmptyMap)
         /\ probe.step >= 3 => probe.statuses[3] = 400
         /\ probe.issued <= 1 + (IF probe.statuses # <<>> /\ probe.statuses[1] = 200
                                 THEN 1 ELSE 0))
  /\ [][(TokenResumed /\ EarlyAsk(lastHttp'.asked)) =>
          (authorizationCodes' = authorizationCodes /\ codeHist' = codeHist)]_vars

\* C30: a redemption without its code verifier was refused, the same code was
\* then redeemed by the complete request, and a further redemption was refused
C30_RedeemedAfterEarlyRejection ==
  /\ phase = "unit"
  /\ probe.fn = "tokenGrant"
  /\ probe.early.grant_type = "authorization_code"
  /\ probe.early.code_verifier = ""
  /\ probe.afterEarly = FrameStore
  /\ probe.statuses = <<400, 200, 400>>
====
